---- MODULE Spec2Model ----
(***************************************************************************)
(* FragMapper: the text normalizer, the mode handlers, the router and the  *)
(* output envelope (src/fragmapper/src/fragmapper).                        *)
(*                                                                         *)
(* A Python str is a sequence of atoms.  An atom is a TLA+ string standing *)
(* for a fixed run of characters: a whole word ("spray"), one whitespace   *)
(* character (" "), or one punctuation character (",").  Adjacent word     *)
(* atoms form one longer word, exactly as their characters would.  The     *)
(* alphabets below are chosen so that no pattern literal of the source     *)
(* can begin or end inside an atom or be spelled by joining atoms.         *)
(* An Optional value is <<>> (None) or <<v>>.                              *)
(***************************************************************************)
EXTENDS Integers, Sequences, FiniteSets, TLC

VARIABLES
    pc,             \* which operation has run on the inputs
    config,         \* FragMapperRouter.config (the loaded YAML mapping)
    skills,         \* FragMapperRouter._skills : mode -> handler
    exclusions,     \* ParfumoMapper.normalizer.exclusions
    mode,           \* the mode argument of the request
    input_text,     \* the text argument of the request
    result,         \* what the call returned or raised
    executed,       \* handlers whose execute ran during the call, in order
    matcher_calls,  \* number of _search_and_match invocations of the call
    simple,         \* the string to_simple_output / get_simple_output gave
    kwargs,         \* keyword arguments given to the MapperOutput constructor
    normalized,     \* normalize(input_text)
    renormalized,   \* normalize(normalize(input_text))
    calls,          \* the route calls in progress on one router: position and locals
    heap,           \* the list objects the calls have allocated, by identity
    args,           \* the parsed command line of the CLI
    exit_code,      \* the exit status of the CLI process
    stdout,         \* what the CLI printed to standard output, line by line
    stderr,         \* what the CLI printed to standard error
    route_calls,    \* number of router.route calls the CLI made
    files,          \* the sync tool's file system: path -> content
    copied,         \* what sync_file returned for each file of the last run
    copied_count    \* the copied_count the sync tool reported in each run

\* the state of concurrent route calls, of the CLI and of the sync tool
parVars == <<calls, heap>>
cliVars == <<args, exit_code, stdout, stderr, route_calls>>
syncVars == <<files, copied, copied_count>>

vars == <<pc, config, skills, exclusions, mode, input_text, result, executed,
          matcher_calls, simple, kwargs, normalized, renormalized,
          parVars, cliVars, syncVars>>

None == <<>>
Some(v) == <<v>>

\* no concurrent calls, no CLI process, no sync tool run
IdlePar == calls = None /\ heap = None
IdleCli ==
    args = None /\ exit_code = None /\ stdout = None /\ stderr = None /\ route_calls = 0
IdleSync == files = None /\ copied = None /\ copied_count = None

(***************************************************************************)
(* Bounds of the checked instances.                                        *)
(***************************************************************************)
MaxLen == 3
MaxNormLen == 4
MaxAlts == 6
MaxPhrases == 3

RECURSIVE SeqsUpTo(_, _)
SeqsUpTo(S, n) ==
    IF n = 0 THEN {<<>>}
    ELSE LET shorter == SeqsUpTo(S, n - 1)
         IN shorter \cup {Append(s, a) : s \in {x \in shorter : Len(x) = n - 1}, a \in S}

(***************************************************************************)
(* Characters.                                                             *)
(***************************************************************************)
\* \s of the regular expressions
SpaceAtoms == {" ", "\t"}
\* characters that are neither \w nor \s
PunctAtoms == {",", "%", "!", "'", "-", ".", "/"}
\* the three punctuation characters normalize keeps
KeptPunct == {"-", ".", "/"}

IsSpace(a) == a \in SpaceAtoms
IsWord(a) == a \notin SpaceAtoms /\ a \notin PunctAtoms

\* str.lower() of one atom
LowerAtom(a) ==
    CASE a = "SPRAY" -> "spray"
      [] a = "Brand" -> "brand"
      [] a = "NEW" -> "new"
      [] a = "Decant" -> "decant"
      [] a = "MINI" -> "mini"
      [] a = "Box" -> "box"
      [] a = "Intense" -> "intense"
      [] a = "EDP" -> "edp"
      [] a = "EDT" -> "edt"
      [] a = "ML" -> "ml"
      [] a = "OZ" -> "oz"
      [] a = "Men" -> "men"
      [] a = "Oud" -> "oud"
      [] OTHER -> a

\* str.lower()
Lower(t) == [i \in 1..Len(t) |-> LowerAtom(t[i])]

(***************************************************************************)
(* The regular-expression forms the normalizer uses.                       *)
(***************************************************************************)
\* the pattern elements \s+ and \d
WS == "\\s+"
D == "\\d"

Digits == {"0", "1", "2", "3", "4", "5", "6", "7", "8", "9"}
IsDigit(a) == a \in Digits
\* int(a) of one digit
DigitValue(a) ==
    CASE a = "0" -> 0 [] a = "1" -> 1 [] a = "2" -> 2 [] a = "3" -> 3 [] a = "4" -> 4
      [] a = "5" -> 5 [] a = "6" -> 6 [] a = "7" -> 7 [] a = "8" -> 8 [] a = "9" -> 9

IsWordAt(t, j) == j >= 1 /\ j <= Len(t) /\ IsWord(t[j])
\* \b between t[i-1] and t[i]
WordBoundary(t, i) == IsWordAt(t, i - 1) # IsWordAt(t, i)

\* first index after the whitespace run that starts at i
RECURSIVE SpaceRunEnd(_, _)
SpaceRunEnd(t, i) ==
    IF i <= Len(t) /\ IsSpace(t[i]) THEN SpaceRunEnd(t, i + 1) ELSE i

\* items[k..] matched at t[i..]: the index after the match, 0 for no match.
\* A literal follows every \s+, so only the greedy run can succeed.
RECURSIVE MatchItems(_, _, _, _)
MatchItems(items, k, t, i) ==
    IF k > Len(items) THEN i
    ELSE IF items[k] = WS
         THEN IF i <= Len(t) /\ IsSpace(t[i])
              THEN MatchItems(items, k + 1, t, SpaceRunEnd(t, i))
              ELSE 0
         ELSE IF i <= Len(t) /\ (IF items[k] = D THEN IsDigit(t[i]) ELSE t[i] = items[k])
              THEN MatchItems(items, k + 1, t, i + 1)
              ELSE 0

\* \b(alt1|alt2|...)\b matched at t[i..]: alternatives are tried in order
MatchPattern(p, t, i) ==
    LET ends == [a \in 1..Len(p) |-> MatchItems(p[a], 1, t, i)]
        ok == {a \in 1..Len(p) : ends[a] # 0 /\ WordBoundary(t, ends[a])}
    IN IF ~WordBoundary(t, i) \/ ok = {} THEN 0
       ELSE ends[CHOOSE a \in ok : \A b \in ok : a <= b]

\* re.sub(p, "", t): leftmost non-overlapping matches removed
RECURSIVE SubFrom(_, _, _)
SubFrom(p, t, i) ==
    IF i > Len(t) THEN <<>>
    ELSE LET e == MatchPattern(p, t, i)
         IN IF e # 0 THEN SubFrom(p, t, e) ELSE <<t[i]>> \o SubFrom(p, t, i + 1)

ReSub(p, t) == SubFrom(p, t, 1)

(***************************************************************************)
(* TextNormalizer                                                          *)
(***************************************************************************)
NOISE_TERMS == <<
    << <<"spray">> >>,
    << <<"authentic">> >>,
    << <<"100", "%">> >>,
    << <<"genuine">> >>,
    << <<"original">> >>,
    << <<"new", WS, "in", WS, "box">>, <<"nib">> >>,
    << <<"sealed">> >>,
    << <<"brand", WS, "new">> >>,
    << <<"free", WS, "shipping">> >> >>

DEFAULT_EXCLUSIONS == <<
    <<"decant">>,
    <<"sample">>,
    <<"empty", " ", "bottle">>,
    <<"box", " ", "only">>,
    <<"tester">>,
    <<"travel", " ", "size">>,
    <<"mini">>,
    <<"vial">>,
    <<"atomizer">>,
    <<"refill">> >>

\* the loop "for pattern in self.NOISE_TERMS: result = re.sub(...)" from k on
RECURSIVE RemoveNoise(_, _)
RemoveNoise(t, k) ==
    IF k > Len(NOISE_TERMS) THEN t
    ELSE RemoveNoise(ReSub(NOISE_TERMS[k], t), k + 1)

\* re.sub(r"[^\w\s\-\./]", " ", result)
ReplaceSpecial(t) ==
    [i \in 1..Len(t) |->
        IF IsWord(t[i]) \/ IsSpace(t[i]) \/ t[i] \in KeptPunct THEN t[i] ELSE " "]

\* re.sub(r"\s+", " ", result)
RECURSIVE CollapseFrom(_, _)
CollapseFrom(t, i) ==
    IF i > Len(t) THEN <<>>
    ELSE IF IsSpace(t[i]) THEN <<" ">> \o CollapseFrom(t, SpaceRunEnd(t, i))
    ELSE <<t[i]>> \o CollapseFrom(t, i + 1)

CollapseSpaces(t) == CollapseFrom(t, 1)

\* str.strip()
Strip(t) ==
    LET keep == {i \in 1..Len(t) : ~IsSpace(t[i])}
    IN IF keep = {} THEN <<>>
       ELSE LET lo == CHOOSE i \in keep : \A j \in keep : i <= j
                hi == CHOOSE i \in keep : \A j \in keep : j <= i
            IN SubSeq(t, lo, hi)

\* normalize without the final strip(): whitespace is collapsed, ends are kept
normalize_unstripped(text) == CollapseSpaces(ReplaceSpecial(RemoveNoise(Lower(text), 1)))

normalize(text) == Strip(CollapseSpaces(ReplaceSpecial(RemoveNoise(Lower(text), 1))))

(***************************************************************************)
(* Normalizing a text, and normalizing the outcome again.                  *)
(***************************************************************************)
NormAtoms == {" ", "\t", ",", "-", "q", "spray", "SPRAY", "brand", "Brand", "new", "100", "%"}
NormTexts == SeqsUpTo(NormAtoms, MaxNormLen)

Idle ==
    /\ config = None
    /\ skills = None
    /\ exclusions = None
    /\ mode = None
    /\ result = [raised |-> None, value |-> None]
    /\ executed = <<>>
    /\ matcher_calls = 0
    /\ simple = None
    /\ kwargs = None

InitNorm ==
    /\ IdlePar /\ IdleCli /\ IdleSync
    /\ Idle
    /\ pc = "ready"
    /\ input_text \in NormTexts
    /\ normalized = None
    /\ renormalized = None

Normalize ==
    /\ pc = "ready"
    /\ normalized' = Some(normalize(input_text))
    /\ pc' = "normalized"
    /\ UNCHANGED <<config, skills, exclusions, mode, input_text, result, executed,
                   matcher_calls, simple, kwargs, renormalized>>
    /\ UNCHANGED <<parVars, cliVars, syncVars>>

NormalizeAgain ==
    /\ pc = "normalized"
    /\ renormalized' = Some(normalize(normalized[1]))
    /\ pc' = "renormalized"
    /\ UNCHANGED <<config, skills, exclusions, mode, input_text, result, executed,
                   matcher_calls, simple, kwargs, normalized>>
    /\ UNCHANGED <<parVars, cliVars, syncVars>>

NextNorm == Normalize \/ NormalizeAgain

SpecNorm == InitNorm /\ [][NextNorm]_vars

(***************************************************************************)
(* C9 (negated by the code): normalize is idempotent -- normalizing the    *)
(* outcome of normalize again changes nothing.                             *)
(***************************************************************************)
C9_NormalizeIdempotent ==
    pc = "renormalized" => renormalized = normalized

\* some noise pattern matches t as a whole word
ContainsNoise(t) ==
    \E k \in 1..Len(NOISE_TERMS), i \in 1..Len(t) : MatchPattern(NOISE_TERMS[k], t, i) # 0

(***************************************************************************)
(* C10 (negated by the code): the outcome of normalize contains no noise   *)
(* term as a whole word, whatever the letter case of the input.            *)
(***************************************************************************)
C10_NoNoiseInOutput ==
    pc = "normalized" => ~ContainsNoise(normalized[1])

\* C11: the outcome of normalize is lowercase, is made only of word
\* characters, single spaces, hyphens, periods and slashes, has no two
\* consecutive whitespace characters and no whitespace at either end.
C11_NormalizedCharset ==
    pc = "normalized" =>
        /\ Lower(normalized[1]) = normalized[1]
        /\ \A i \in 1..Len(normalized[1]) :
              \/ IsWord(normalized[1][i])
              \/ normalized[1][i] = " "
              \/ normalized[1][i] \in {"-", ".", "/"}
        /\ \A i \in 1..(Len(normalized[1]) - 1) :
              ~(IsSpace(normalized[1][i]) /\ IsSpace(normalized[1][i + 1]))
        /\ normalized[1] # <<>> =>
              (~IsSpace(normalized[1][1]) /\ ~IsSpace(normalized[1][Len(normalized[1])]))

\* a capitalised word, a tab next to a replaced comma, and a trailing space
C11_Witness ==
    /\ pc = "normalized"
    /\ input_text = <<"Brand", "\t", ",", " ">>
    /\ normalized = Some(<<"brand">>)

(***************************************************************************)
(* models/schemas.py                                                       *)
(***************************************************************************)
Modes == {"DESC_TO_PARFUMO_URL", "DESC_TO_FRAGRANTICA_URL", "PARFUMO_TO_FRAGRANTICA_URL"}
MatchStatus == {"MATCH", "AMBIGUOUS", "NO_MATCH", "EXCLUDED"}

\* confidences are counted in tenths: Field(ge=0.0, le=1.0)
CONFIDENCE_GE == 0
CONFIDENCE_LE == 10
\* Field(max_length=5) of MapperOutput.alternates
MAX_ALTERNATES == 5

\* bool(x) of a str or a list
Truthy(x) == Len(x) > 0
\* bool(x) of an Optional[str]
TruthyOpt(x) == x # None /\ Truthy(x[1])

Raised(exc) == [raised |-> Some(exc), value |-> None]
Returned(v) == [raised |-> None, value |-> Some(v)]
NoResult == [raised |-> None, value |-> None]

\* InputSummary()
InputSummary ==
    [brand |-> None, name |-> None, concentration |-> None, size_ml |-> None,
     flanker |-> None, year |-> None, target |-> None]

\* DebugInfo()
DebugInfo ==
    [excluded_terms_found |-> <<>>, normalized_title |-> None, search_queries_used |-> <<>>]

ConfidenceOutOfRange(c) == c < CONFIDENCE_GE \/ c > CONFIDENCE_LE

\* AlternateMatch(url=..., confidence=..., note=...)
AlternateMatch(a) ==
    IF ConfidenceOutOfRange(a.confidence) THEN Raised("ValidationError") ELSE Returned(a)

\* MapperOutput that keeps the first five alternates of a longer list
MapperOutputTruncating(kw) ==
    IF \/ kw.mode \notin Modes
       \/ kw.status \notin MatchStatus
       \/ (kw.confidence # None /\ ConfidenceOutOfRange(kw.confidence[1]))
       \/ \E i \in 1..Len(kw.alternates) : AlternateMatch(kw.alternates[i]).raised # None
    THEN Raised("ValidationError")
    ELSE Returned([kw EXCEPT !.alternates =
            IF Len(@) > MAX_ALTERNATES THEN SubSeq(@, 1, MAX_ALTERNATES) ELSE @])

\* MapperOutput(**kw): pydantic validates every field, then stores the values
MapperOutput(kw) ==
    IF \/ kw.mode \notin Modes
       \/ kw.status \notin MatchStatus
       \/ (kw.confidence # None /\ ConfidenceOutOfRange(kw.confidence[1]))
       \/ Len(kw.alternates) > MAX_ALTERNATES
       \/ \E i \in 1..Len(kw.alternates) : AlternateMatch(kw.alternates[i]).raised # None
    THEN Raised("ValidationError")
    ELSE Returned([kw EXCEPT !.alternates =
            [i \in 1..Len(@) |-> AlternateMatch(@[i]).value[1]]])

\* the field defaults of MapperOutput
MapperOutputDefaults ==
    [input_summary |-> InputSummary, primary_url |-> None, confidence |-> None,
     alternates |-> <<>>, notes |-> <<>>, debug |-> DebugInfo]

\* "\n".join(urls)
RECURSIVE JoinLines(_)
JoinLines(urls) ==
    IF Len(urls) = 0 THEN <<>>
    ELSE IF Len(urls) = 1 THEN urls[1]
    ELSE urls[1] \o <<"\n">> \o JoinLines(Tail(urls))

\* to_simple_output that lists the alternates by descending confidence
RECURSIVE ByConfidence(_)
ByConfidence(alts) ==
    IF alts = <<>> THEN <<>>
    ELSE LET best == CHOOSE i \in 1..Len(alts) :
                        \A j \in 1..Len(alts) :
                            \/ alts[i].confidence > alts[j].confidence
                            \/ (alts[i].confidence = alts[j].confidence /\ i <= j)
         IN <<alts[best]>> \o
            ByConfidence([k \in 1..(Len(alts) - 1) |-> IF k < best THEN alts[k] ELSE alts[k + 1]])

to_simple_output_sorting(env) ==
    IF env.status = "MATCH" /\ TruthyOpt(env.primary_url) THEN env.primary_url[1]
    ELSE IF env.status = "AMBIGUOUS" /\ Truthy(env.alternates)
         THEN LET alts == ByConfidence(env.alternates)
              IN <<"AMBIGUOUS", "\n">> \o JoinLines([i \in 1..Len(alts) |-> alts[i].url])
         ELSE <<"NOT_FOUND">>

\* to_simple_output that tests the status alone
to_simple_output_status_only(env) ==
    IF env.status = "MATCH" THEN (IF env.primary_url = None THEN <<"None">> ELSE env.primary_url[1])
    ELSE IF env.status = "AMBIGUOUS"
         THEN <<"AMBIGUOUS", "\n">> \o
              JoinLines([i \in 1..Len(env.alternates) |-> env.alternates[i].url])
         ELSE <<"NOT_FOUND">>

\* MapperOutput.to_simple_output
to_simple_output(env) ==
    IF env.status = "MATCH" /\ TruthyOpt(env.primary_url) THEN env.primary_url[1]
    ELSE IF env.status = "AMBIGUOUS" /\ Truthy(env.alternates)
         THEN LET urls == [i \in 1..Len(env.alternates) |-> env.alternates[i].url]
              IN <<"AMBIGUOUS", "\n">> \o JoinLines(urls)
         ELSE <<"NOT_FOUND">>

(***************************************************************************)
(* Constructing an envelope from keyword arguments and serialising it.     *)
(***************************************************************************)
\* candidate dicts of the alternates argument: url, confidence in tenths
AltPool ==
    {[url |-> <<"https://url1.com">>, confidence |-> 0, note |-> None],
     [url |-> <<"https://url2.com">>, confidence |-> 10, note |-> None],
     [url |-> <<"https://url3.com">>, confidence |-> 11, note |-> None]}
UrlArgs == {None, Some(<<>>), Some(<<"https://www.parfumo.com/Perfumes/Dior/Sauvage">>)}
ConfidenceArgs == {None, Some(0 - 1), Some(0), Some(10), Some(15)}

InitEnv ==
    /\ IdlePar /\ IdleCli /\ IdleSync
    /\ pc = "ready"
    /\ config = None
    /\ skills = None
    /\ exclusions = None
    /\ mode = None
    /\ input_text = <<>>
    /\ result = NoResult
    /\ executed = <<>>
    /\ matcher_calls = 0
    /\ simple = None
    /\ normalized = None
    /\ renormalized = None
    /\ \E st \in MatchStatus, u \in UrlArgs, c \in ConfidenceArgs,
          alts \in SeqsUpTo(AltPool, MaxAlts) :
          kwargs = [MapperOutputDefaults EXCEPT !.primary_url = u, !.confidence = c,
                                                 !.alternates = alts]
                   @@ [mode |-> "DESC_TO_PARFUMO_URL", status |-> st]

\* output = MapperOutput(**kwargs)
Construct ==
    /\ pc = "ready"
    /\ result' = MapperOutput(kwargs)
    /\ pc' = "built"
    /\ UNCHANGED <<config, skills, exclusions, mode, input_text, executed,
                   matcher_calls, simple, kwargs, normalized, renormalized>>
    /\ UNCHANGED <<parVars, cliVars, syncVars>>

\* simple = output.to_simple_output()
ToSimpleOutput ==
    /\ pc = "built"
    /\ result.value # None
    /\ simple' = Some(to_simple_output(result.value[1]))
    /\ pc' = "output"
    /\ UNCHANGED <<config, skills, exclusions, mode, input_text, result, executed,
                   matcher_calls, kwargs, normalized, renormalized>>
    /\ UNCHANGED <<parVars, cliVars, syncVars>>

NextEnv == Construct \/ ToSimpleOutput

SpecEnv == InitEnv /\ [][NextEnv]_vars

(***************************************************************************)
(* TextNormalizer: exclusions and component extraction                     *)
(***************************************************************************)
\* dict.get(k, default)
Get(d, k, default) == IF k \in DOMAIN d THEN d[k] ELSE default

\* _load_exclusions adding the configured terms to the default list
load_exclusions_extending(cfg) ==
    LET global_config == Get(cfg, "global", <<>>)
        excl == DEFAULT_EXCLUSIONS \o Get(global_config, "exclusions", <<>>)
    IN [i \in 1..Len(excl) |-> Lower(excl[i])]

\* TextNormalizer._load_exclusions
load_exclusions(cfg) ==
    LET global_config == Get(cfg, "global", <<>>)
        excl == Get(global_config, "exclusions", DEFAULT_EXCLUSIONS)
    IN [i \in 1..Len(excl) |-> Lower(excl[i])]

\* "term in t" of two strs
Contains(t, term) ==
    \E i \in 1..(Len(t) - Len(term) + 1) : SubSeq(t, i, i + Len(term) - 1) = term

\* re.search(p, t) is not None
Search(p, t) == \E i \in 1..Len(t) : MatchPattern(p, t, i) # 0

\* find_exclusions scanning the normalized text instead of the raw text
find_exclusions_normalized(text, excl) ==
    SelectSeq(excl, LAMBDA e : Contains(normalize(text), e))

\* a scan that walks the text and collects each term where it first occurs
RECURSIVE CollectInTextOrder(_, _, _, _)
CollectInTextOrder(t, excl, i, found) ==
    IF i > Len(t) THEN found
    ELSE CollectInTextOrder(t, excl, i + 1,
            found \o SelectSeq(excl, LAMBDA e :
                /\ \A j \in 1..Len(found) : found[j] # e
                /\ i + Len(e) - 1 <= Len(t)
                /\ SubSeq(t, i, i + Len(e) - 1) = e))

\* find_exclusions reporting the terms in their order of occurrence in the text
find_exclusions_in_text_order(text, excl) == CollectInTextOrder(Lower(text), excl, 1, <<>>)

\* TextNormalizer.find_exclusions with self.exclusions = excl
find_exclusions(text, excl) == SelectSeq(excl, LAMBDA e : Contains(Lower(text), e))

CONCENTRATION_PATTERNS == <<
    [pattern |-> << <<"edp">>, <<"eau", WS, "de", WS, "parfum">> >>, label |-> <<"EDP">>],
    [pattern |-> << <<"edt">>, <<"eau", WS, "de", WS, "toilette">> >>, label |-> <<"EDT">>],
    [pattern |-> << <<"edc">>, <<"eau", WS, "de", WS, "cologne">>, <<"cologne">> >>,
     label |-> <<"EDC">>],
    [pattern |-> << <<"parfum">>, <<"extrait">>, <<"extrait", WS, "de", WS, "parfum">>,
                    <<"pure", WS, "parfum">> >>,
     label |-> <<"Parfum">>] >>

\* the vocabulary with "absolute" listed before "absolu"
FLANKER_TERMS_longest_first == <<
    <<"intense">>, <<"absolu", "te">>, <<"absolu">>, <<"elixir">>, <<"sport">>, <<"nuit">>,
    <<"noir">>, <<"extreme">>, <<"privee">>, <<"reserve">>, <<"limited", " ", "edition">>,
    <<"collector">>, <<"oud">>, <<"exclusive">> >>

FLANKER_TERMS == <<
    <<"intense">>,
    <<"absolu">>,
    <<"absolu", "te">>,
    <<"elixir">>,
    <<"sport">>,
    <<"nuit">>,
    <<"noir">>,
    <<"extreme">>,
    <<"privee">>,
    <<"reserve">>,
    <<"limited", " ", "edition">>,
    <<"collector">>,
    <<"oud">>,
    <<"exclusive">> >>

\* \b(pour\s+homme|for\s+men|men'?s?)\b
MEN_PATTERN == <<
    <<"pour", WS, "homme">>, <<"for", WS, "men">>,
    <<"men", "'", "s">>, <<"men", "'">>, <<"men", "s">>, <<"men">> >>
\* \b(pour\s+femme|for\s+women|women'?s?)\b
WOMEN_PATTERN == <<
    <<"pour", WS, "femme">>, <<"for", WS, "wo", "men">>,
    <<"wo", "men", "'", "s">>, <<"wo", "men", "'">>, <<"wo", "men", "s">>, <<"wo", "men">> >>
\* \b(unisex)\b
UNISEX_PATTERN == << <<"unisex">> >>
\* \b(19\d{2}|20\d{2})\b
YEAR_PATTERN == << <<"1", "9", D, D>>, <<"2", "0", D, D>> >>

\* str.title() of one atom that starts a word
TitleAtom(a) ==
    CASE a = "intense" -> "Intense" [] a = "absolu" -> "Absolu" [] a = "elixir" -> "Elixir"
      [] a = "sport" -> "Sport" [] a = "nuit" -> "Nuit" [] a = "noir" -> "Noir"
      [] a = "extreme" -> "Extreme" [] a = "privee" -> "Privee" [] a = "reserve" -> "Reserve"
      [] a = "limited" -> "Limited" [] a = "edition" -> "Edition"
      [] a = "collector" -> "Collector" [] a = "oud" -> "Oud"
      [] a = "exclusive" -> "Exclusive"
      [] OTHER -> a

\* str.title() of a lowercase str
Title(t) == [i \in 1..Len(t) |-> IF IsWordAt(t, i - 1) THEN t[i] ELSE TitleAtom(t[i])]

\* first index after the digit run that starts at i
RECURSIVE DigitRunEnd(_, _)
DigitRunEnd(t, i) ==
    IF i <= Len(t) /\ IsDigit(t[i]) THEN DigitRunEnd(t, i + 1) ELSE i

\* (\d+(?:\.\d+)?) at t[i..]: the index after the number, 0 for no match
NumberEnd(t, i) ==
    IF ~(i <= Len(t) /\ IsDigit(t[i])) THEN 0
    ELSE LET j == DigitRunEnd(t, i)
         IN IF j + 1 <= Len(t) /\ t[j] = "." /\ IsDigit(t[j + 1])
            THEN DigitRunEnd(t, j + 1)
            ELSE j

\* the digits t[i..j-1] read as a decimal integer
RECURSIVE DigitsValue(_, _, _)
DigitsValue(t, i, j) ==
    IF j <= i THEN 0 ELSE 10 * DigitsValue(t, i, j - 1) + DigitValue(t[j - 1])

RECURSIVE Pow10(_)
Pow10(n) == IF n = 0 THEN 1 ELSE 10 * Pow10(n - 1)

\* the number literal t[i..e-1] as [units, frac, scale]: units + frac / scale
NumberAt(t, i, e) ==
    LET j == DigitRunEnd(t, i)
    IN [units |-> DigitsValue(t, i, j),
        frac |-> IF j < e THEN DigitsValue(t, j + 1, e) ELSE 0,
        scale |-> IF j < e THEN Pow10(e - j - 1) ELSE 1]

\* \s*(ml|milliliter) at t[i..]
MlUnitAt(t, i) ==
    LET u == SpaceRunEnd(t, i) IN u <= Len(t) /\ t[u] \in {"ml", "milliliter"}

\* \s*(oz|ounce|fl\.?\s*oz) at t[i..]
OzUnitAt(t, i) ==
    LET u == SpaceRunEnd(t, i)
    IN /\ u <= Len(t)
       /\ \/ t[u] \in {"oz", "ounce"}
          \/ /\ t[u] = "fl"
             /\ LET v == IF u + 1 <= Len(t) /\ t[u + 1] = "." THEN u + 2 ELSE u + 1
                    w == SpaceRunEnd(t, v)
                IN w <= Len(t) /\ t[w] = "oz"

\* 29.5735 as the integer 295735 over OZ_SCALE
OZ_TO_ML == 295735
OZ_SCALE == 10000

\* the least element of a set of indices
MinOf(S) == CHOOSE x \in S : \A y \in S : x <= y

\* the first regex of _extract_size_ml matches with its number at t[i..e-1]
MlMatch(t, e) == e # 0 /\ MlUnitAt(t, e)
\* the second regex of _extract_size_ml matches with its number at t[i..e-1]
OzMatch(t, e) == e # 0 /\ OzUnitAt(t, e)

\* int(float(ml_match.group(1)))
MlValue(n) == n.units
\* int(oz_value * 29.5735); the whole ounces are multiplied apart from the rest
\* so that no intermediate product leaves the integers TLC computes with
OzValue(n) ==
    (OZ_TO_ML \div OZ_SCALE) * n.units
        + (n.units * (OZ_TO_ML % OZ_SCALE) * n.scale + n.frac * OZ_TO_ML)
              \div (n.scale * OZ_SCALE)

\* _extract_size_ml taking whichever literal, ml or oz, stands first in the text
size_of_matches_leftmost(t, ml, oz) ==
    IF oz # {} /\ (ml = {} \/ MinOf(oz) < MinOf(ml))
    THEN Some(OzValue(NumberAt(t, MinOf(oz), NumberEnd(t, MinOf(oz)))))
    ELSE IF ml # {} THEN Some(MlValue(NumberAt(t, MinOf(ml), NumberEnd(t, MinOf(ml)))))
    ELSE None

\* the returns of _extract_size_ml, given where each regex matches
size_of_matches(t, ml, oz) ==
    IF ml # {} THEN Some(MlValue(NumberAt(t, MinOf(ml), NumberEnd(t, MinOf(ml)))))
    ELSE IF oz # {} THEN Some(OzValue(NumberAt(t, MinOf(oz), NumberEnd(t, MinOf(oz)))))
    ELSE None

\* _extract_size_ml on text_lower
size_of_lower(t) ==
    size_of_matches(t, {i \in 1..Len(t) : MlMatch(t, NumberEnd(t, i))},
                       {i \in 1..Len(t) : OzMatch(t, NumberEnd(t, i))})

\* TextNormalizer._extract_size_ml
extract_size_ml(text) == size_of_lower(Lower(text))

\* the concentration loop without its break: the last pattern that matches wins
concentration_of_last(found) ==
    IF found = {} THEN None
    ELSE Some(CONCENTRATION_PATTERNS[CHOOSE k \in found : \A j \in found : j <= k].label)

\* the concentration loop: the label of the first pattern that matches
concentration_of(found) ==
    IF found = {} THEN None ELSE Some(CONCENTRATION_PATTERNS[MinOf(found)].label)

\* "components['size_ml'] = size_ml" without the truthiness test
size_field_reporting_zero(size_ml) == size_ml

\* "if size_ml: components['size_ml'] = size_ml"
size_field(size_ml) == IF size_ml # None /\ size_ml[1] # 0 THEN size_ml ELSE None

\* the year of the rightmost match instead of the leftmost
year_of_last(text, found) ==
    IF found = {} THEN None
    ELSE Some(DigitsValue(text, CHOOSE i \in found : \A j \in found : j <= i,
                          (CHOOSE i \in found : \A j \in found : j <= i) + 4))

\* int(year_match.group(1)) of the leftmost match
year_of(text, found) ==
    IF found = {} THEN None ELSE Some(DigitsValue(text, MinOf(found), MinOf(found) + 4))

\* the chain tested in the opposite order: unisex, then women, then men
target_of_unisex_first(text_lower) ==
    IF Search(UNISEX_PATTERN, text_lower) THEN Some(<<"unisex">>)
    ELSE IF Search(WOMEN_PATTERN, text_lower) THEN Some(<<"women">>)
    ELSE IF Search(MEN_PATTERN, text_lower) THEN Some(<<"men">>)
    ELSE None

\* the if/elif chain over the three target patterns
target_of(text_lower) ==
    IF Search(MEN_PATTERN, text_lower) THEN Some(<<"men">>)
    ELSE IF Search(WOMEN_PATTERN, text_lower) THEN Some(<<"women">>)
    ELSE IF Search(UNISEX_PATTERN, text_lower) THEN Some(<<"unisex">>)
    ELSE None

\* the flanker loop storing the term as listed, without title()
flanker_of_as_listed(found) ==
    IF found = {} THEN None ELSE Some(FLANKER_TERMS[MinOf(found)])

\* the flanker loop: the first listed term that occurs, title-cased
flanker_of(found) ==
    IF found = {} THEN None ELSE Some(Title(FLANKER_TERMS[MinOf(found)]))

\* extract_components taking the first atom of the text for the name
components_of_naming(text, text_lower) ==
    [brand |-> None,
     name |-> IF text # <<>> /\ IsWord(text[1]) THEN Some(<<text[1]>>) ELSE None,
     concentration |->
        concentration_of({k \in 1..Len(CONCENTRATION_PATTERNS) :
                            Search(CONCENTRATION_PATTERNS[k].pattern, text_lower)}),
     size_ml |-> size_field(extract_size_ml(text)),
     flanker |->
        flanker_of({k \in 1..Len(FLANKER_TERMS) :
                      Contains(text_lower, Lower(FLANKER_TERMS[k]))}),
     year |-> year_of(text, {i \in 1..Len(text) : MatchPattern(YEAR_PATTERN, text, i) # 0}),
     target |-> target_of(text_lower)]

\* the body of extract_components after "text_lower = text.lower()"
components_of(text, text_lower) ==
    [brand |-> None,
     name |-> None,
     concentration |->
        concentration_of({k \in 1..Len(CONCENTRATION_PATTERNS) :
                            Search(CONCENTRATION_PATTERNS[k].pattern, text_lower)}),
     size_ml |-> size_field(extract_size_ml(text)),
     flanker |->
        flanker_of({k \in 1..Len(FLANKER_TERMS) :
                      Contains(text_lower, Lower(FLANKER_TERMS[k]))}),
     year |-> year_of(text, {i \in 1..Len(text) : MatchPattern(YEAR_PATTERN, text, i) # 0}),
     target |-> target_of(text_lower)]

\* TextNormalizer.extract_components
extract_components(text) == components_of(text, Lower(text))

(***************************************************************************)
(* agents: ParfumoMapper, FragranticaMapper, CrosswalkMapper               *)
(***************************************************************************)
Handlers == {"ParfumoMapper", "FragranticaMapper", "CrosswalkMapper"}

\* the class attribute MODE of each handler
HandlerMODE(h) ==
    CASE h = "ParfumoMapper" -> "DESC_TO_PARFUMO_URL"
      [] h = "FragranticaMapper" -> "DESC_TO_FRAGRANTICA_URL"
      [] h = "CrosswalkMapper" -> "PARFUMO_TO_FRAGRANTICA_URL"

\* " ".join(parts)
RECURSIVE JoinSpaces(_)
JoinSpaces(parts) ==
    IF Len(parts) = 0 THEN <<>>
    ELSE IF Len(parts) = 1 THEN parts[1]
    ELSE parts[1] \o <<" ">> \o JoinSpaces(Tail(parts))

\* the InputSummary and DebugInfo that _extract_clues builds
clues_of(normalized_text, excluded, components) ==
    [input_summary |->
        [brand |-> components.brand, name |-> components.name,
         concentration |-> components.concentration, size_ml |-> components.size_ml,
         flanker |-> components.flanker, year |-> components.year,
         target |-> components.target],
     debug_info |->
        [DebugInfo EXCEPT !.normalized_title = Some(normalized_text),
                          !.excluded_terms_found = excluded]]

\* ParfumoMapper._extract_clues
extract_clues(text, excl) ==
    clues_of(normalize(text), find_exclusions(text, excl), extract_components(text))

\* the query parts appended in the order brand, name, concentration, flanker
query_parts_of_concentration_first(input_summary) ==
    SelectSeq(<<input_summary.brand, input_summary.name,
                input_summary.concentration, input_summary.flanker>>, TruthyOpt)

\* the truthy fields of the summary, in the order _search_and_match appends them
query_parts_of(input_summary) ==
    SelectSeq(<<input_summary.brand, input_summary.name,
                input_summary.flanker, input_summary.concentration>>, TruthyOpt)

\* f"site:parfumo.com Perfumes {' '.join(query_parts)}"
search_query_of(query_parts) ==
    <<"site:parfumo.com Perfumes ">> \o JoinSpaces([i \in 1..Len(query_parts) |-> query_parts[i][1]])

\* the envelope _search_and_match returns after recording its query
searched(input_summary, debug_info, search_query) ==
    MapperOutput(
        [MapperOutputDefaults EXCEPT
            !.input_summary = input_summary,
            !.debug = [debug_info EXCEPT !.search_queries_used = Append(@, search_query)],
            !.notes = << <<"Placeholder implementation - requires web search integration">>,
                         <<"Would search: ">> \o search_query >>]
        @@ [mode |-> HandlerMODE("ParfumoMapper"), status |-> "NO_MATCH"])

\* _search_and_match without the "if not query_parts" return: it always records a query
search_and_match_always_querying(input_summary, debug_info) ==
    [out |-> searched(input_summary, debug_info,
                      search_query_of(query_parts_of(input_summary))),
     matcher_calls |-> 1]

\* ParfumoMapper._search_and_match; a call returns [out, matcher_calls]
search_and_match(input_summary, debug_info) ==
    [out |->
        IF ~Truthy(query_parts_of(input_summary))
        THEN MapperOutput(
                [MapperOutputDefaults EXCEPT
                    !.input_summary = input_summary, !.debug = debug_info,
                    !.notes = << <<"Insufficient information to search">> >>]
                @@ [mode |-> HandlerMODE("ParfumoMapper"), status |-> "NO_MATCH"])
        ELSE searched(input_summary, debug_info,
                      search_query_of(query_parts_of(input_summary))),
     matcher_calls |-> 1]

\* the body of execute after _extract_clues, with the exclusion check left out
resolve_unchecked(input_summary, debug_info) == search_and_match(input_summary, debug_info)

\* the body of ParfumoMapper.execute after "input_summary, debug_info = ..."
resolve(input_summary, debug_info) ==
    IF Truthy(debug_info.excluded_terms_found)
    THEN [out |-> MapperOutput(
                     [MapperOutputDefaults EXCEPT
                         !.input_summary = input_summary, !.debug = debug_info,
                         !.notes = << <<"Input contains exclusion terms">> >>]
                     @@ [mode |-> HandlerMODE("ParfumoMapper"), status |-> "EXCLUDED"]),
          matcher_calls |-> 0]
    ELSE search_and_match(input_summary, debug_info)

\* execute, given what _extract_clues returned
execute_clues(clues) == resolve(clues.input_summary, clues.debug_info)

\* ParfumoMapper.execute that looks for the exclusions in the normalized text
ParfumoMapper_execute_normalized(text, excl) ==
    execute_clues(clues_of(normalize(text), find_exclusions_normalized(text, excl),
                           extract_components(text)))

\* ParfumoMapper.execute with self.normalizer.exclusions = excl
ParfumoMapper_execute(text, excl) == execute_clues(extract_clues(text, excl))

\* a placeholder that records the input text in its debug information
FragranticaMapper_execute_echoing(text) ==
    [out |-> MapperOutput(
                [MapperOutputDefaults EXCEPT
                    !.notes = << <<"FragranticaMapper is not implemented yet">> >>,
                    !.debug = [DebugInfo EXCEPT !.normalized_title = Some(Lower(text))]]
                @@ [mode |-> HandlerMODE("FragranticaMapper"), status |-> "NO_MATCH"]),
     matcher_calls |-> 0]

\* FragranticaMapper.execute
FragranticaMapper_execute(text) ==
    [out |-> MapperOutput(
                [MapperOutputDefaults EXCEPT
                    !.notes = << <<"FragranticaMapper is not implemented yet">> >>]
                @@ [mode |-> HandlerMODE("FragranticaMapper"), status |-> "NO_MATCH"]),
     matcher_calls |-> 0]

\* CrosswalkMapper.execute
CrosswalkMapper_execute(text) ==
    [out |-> MapperOutput(
                [MapperOutputDefaults EXCEPT
                    !.notes = << <<"CrosswalkMapper is not implemented yet">> >>]
                @@ [mode |-> HandlerMODE("CrosswalkMapper"), status |-> "NO_MATCH"]),
     matcher_calls |-> 0]

\* skill.execute(input_text), dispatched on the handler's class
execute(h, text, excl) ==
    CASE h = "ParfumoMapper" -> ParfumoMapper_execute(text, excl)
      [] h = "FragranticaMapper" -> FragranticaMapper_execute(text)
      [] h = "CrosswalkMapper" -> CrosswalkMapper_execute(text)

(***************************************************************************)
(* router.py                                                               *)
(***************************************************************************)
\* a handler table that registers the stub of the other placeholder mode
initialize_skills_swapped ==
    [m \in Modes |->
        CASE m = "DESC_TO_PARFUMO_URL" -> "ParfumoMapper"
          [] m = "DESC_TO_FRAGRANTICA_URL" -> "CrosswalkMapper"
          [] m = "PARFUMO_TO_FRAGRANTICA_URL" -> "FragranticaMapper"]

\* FragMapperRouter._initialize_skills
initialize_skills ==
    [m \in Modes |->
        CASE m = "DESC_TO_PARFUMO_URL" -> "ParfumoMapper"
          [] m = "DESC_TO_FRAGRANTICA_URL" -> "FragranticaMapper"
          [] m = "PARFUMO_TO_FRAGRANTICA_URL" -> "CrosswalkMapper"]

\* "return skill.execute(input_text)": the handler's return is route's return
delegated(h, r) == [out |-> r.out, executed |-> <<h>>, matcher_calls |-> r.matcher_calls]

\* FragMapperRouter.route; a call returns [out, executed, matcher_calls]
route(table, excl, m, text) ==
    IF m \notin DOMAIN table
    THEN [out |-> MapperOutput(
                     [MapperOutputDefaults EXCEPT !.notes = << <<"Unsupported MODE">> >>]
                     @@ [mode |-> m, status |-> "NO_MATCH"]),
          executed |-> <<>>,
          matcher_calls |-> 0]
    ELSE delegated(table[m], execute(table[m], text, excl))

(***************************************************************************)
(* One router, one request.                                                *)
(***************************************************************************)
\* the YAML mapping the router loaded: no file, or one that sets exclusions
\* no rules file; a global exclusions list; an exclusions list under the mode
Configs ==
    {<<>>,
     [version |-> <<"1.0.0">>, global |-> [exclusions |-> << <<"Box", " ", "only">> >>]],
     [version |-> <<"1.0.0">>,
      modes |-> [DESC_TO_PARFUMO_URL |-> [exclusions |-> << <<"q">> >>]]]}
\* mode arguments: the enum members and a value outside the enum
ModeArgs == Modes \cup {"INVALID_MODE"}
TextAtoms == {"Decant", "box", "only", " ", ",", "intense", "EDP", "q"}
Texts == SeqsUpTo(TextAtoms, MaxLen)

Init ==
    /\ IdlePar /\ IdleCli /\ IdleSync
    /\ pc = "ready"
    /\ config \in Configs
    /\ skills = initialize_skills
    /\ exclusions = load_exclusions(config)
    /\ mode \in ModeArgs
    /\ input_text \in Texts
    /\ result = NoResult
    /\ executed = <<>>
    /\ matcher_calls = 0
    /\ simple = None
    /\ kwargs = None
    /\ normalized = None
    /\ renormalized = None

\* the call ends with r: what it returned or raised, and what ran
Returns(r) ==
    /\ result' = r.out
    /\ executed' = r.executed
    /\ matcher_calls' = r.matcher_calls

\* "return result.to_simple_output()" of get_simple_output
ReturnsSimple(r) ==
    /\ Returns(r)
    /\ simple' = IF r.out.value # None THEN Some(to_simple_output(r.out.value[1])) ELSE None

\* result = router.route(mode, input_text)
Route ==
    /\ pc = "ready"
    /\ Returns(route(skills, exclusions, mode, input_text))
    /\ pc' = "routed"
    /\ UNCHANGED <<config, skills, exclusions, mode, input_text, simple, kwargs,
                   normalized, renormalized>>
    /\ UNCHANGED <<parVars, cliVars, syncVars>>

\* result = router._skills[mode].execute(input_text): the handler called directly
Execute ==
    /\ pc = "ready"
    /\ mode \in DOMAIN skills
    /\ Returns(delegated(skills[mode], execute(skills[mode], input_text, exclusions)))
    /\ pc' = "executed"
    /\ UNCHANGED <<config, skills, exclusions, mode, input_text, simple, kwargs,
                   normalized, renormalized>>
    /\ UNCHANGED <<parVars, cliVars, syncVars>>

\* simple = router.get_simple_output(mode, input_text); an exception of route propagates
GetSimpleOutput ==
    /\ pc = "ready"
    /\ ReturnsSimple(route(skills, exclusions, mode, input_text))
    /\ pc' = "simple"
    /\ UNCHANGED <<config, skills, exclusions, mode, input_text, kwargs,
                   normalized, renormalized>>
    /\ UNCHANGED <<parVars, cliVars, syncVars>>

Next == Route \/ Execute \/ GetSimpleOutput

Spec == Init /\ [][Next]_vars

(***************************************************************************)
(* The normalizer's two scans called on their own: find_exclusions and     *)
(* extract_components of one text.  A text is up to MaxPhrases phrases of  *)
(* one family joined end to end.                                           *)
(***************************************************************************)
\* "".join(phrases)
RECURSIVE Join(_)
Join(phrases) == IF phrases = <<>> THEN <<>> ELSE Head(phrases) \o Join(Tail(phrases))

PhraseTexts(pool) == {Join(ps) : ps \in SeqsUpTo(pool, MaxPhrases)}

ExclusionPhrases ==
    {<<"Decant">>, <<"MINI">>, <<"refill">>, <<"box", " ", "only">>, <<" ">>, <<"q">>}
ConcentrationPhrases ==
    {<<"eau", " ", "de", " ", "parfum">>, <<"parfum">>, <<"EDP">>, <<"EDT">>,
     <<"cologne">>, <<"extrait">>, <<" ">>, <<"q">>}
SizePhrases ==
    {<<"3", ".", "4">>, <<"5">>, <<"0">>, <<".">>, <<"ml">>, <<"5", "ml">>, <<"0", "ml">>,
     <<"oz">>, <<"fl">>, <<" ">>}
YearPhrases ==
    {<<"1", "9", "9", "9">>, <<"2", "0", "0", "1">>, <<"2", "1", "0", "0">>, <<"5">>,
     <<" ">>, <<"q">>}
TargetPhrases ==
    {<<"for", " ", "men">>, <<"pour", " ", "femme">>, <<"wo", "men">>, <<"unisex">>,
     <<"'">>, <<"s">>, <<" ">>, <<"q">>}
FlankerPhrases ==
    {<<"Oud">>, <<"Intense">>, <<"absolu">>, <<"absolu", "te">>, <<"sport">>,
     <<"limited", " ", "edition">>, <<" ">>, <<"q">>}

\* each term of the flanker vocabulary as a text of its own
VocabularyTexts == {FLANKER_TERMS[k] : k \in 1..Len(FLANKER_TERMS)}

ScanTexts ==
    PhraseTexts(ExclusionPhrases) \cup PhraseTexts(ConcentrationPhrases)
        \cup PhraseTexts(SizePhrases) \cup PhraseTexts(YearPhrases)
        \cup PhraseTexts(TargetPhrases) \cup PhraseTexts(FlankerPhrases)
        \cup VocabularyTexts

\* configurations of the normalizer: the three of the router and a longer list
ScanConfigs ==
    Configs \cup
        {[global |-> [exclusions |-> << <<"refill">>, <<"MINI">>, <<"Decant">> >>]]}

\* extract_components reads no configuration: the texts written for it are
\* scanned by the default normalizer, the exclusion texts by every normalizer
ScanInputs ==
    {<<c, t>> : c \in ScanConfigs, t \in PhraseTexts(ExclusionPhrases)}
        \cup {<<None, t>> : t \in ScanTexts}

\* normalizer = TextNormalizer(config)
InitScan ==
    /\ IdlePar /\ IdleCli /\ IdleSync
    /\ pc = "ready"
    /\ \E input \in ScanInputs : config = input[1] /\ input_text = input[2]
    /\ skills = None
    /\ exclusions = load_exclusions(config)
    /\ mode = None
    /\ result = NoResult
    /\ executed = <<>>
    /\ matcher_calls = 0
    /\ simple = None
    /\ kwargs = None
    /\ normalized = None
    /\ renormalized = None

\* result = normalizer.find_exclusions(input_text)
FindExclusions ==
    /\ pc = "ready"
    /\ result' = Returned(find_exclusions(input_text, exclusions))
    /\ pc' = "found"
    /\ UNCHANGED <<config, skills, exclusions, mode, input_text, executed,
                   matcher_calls, simple, kwargs, normalized, renormalized>>
    /\ UNCHANGED <<parVars, cliVars, syncVars>>

\* result = normalizer.extract_components(input_text)
ExtractComponents ==
    /\ pc = "ready"
    /\ result' = Returned(extract_components(input_text))
    /\ pc' = "extracted"
    /\ UNCHANGED <<config, skills, exclusions, mode, input_text, executed,
                   matcher_calls, simple, kwargs, normalized, renormalized>>
    /\ UNCHANGED <<parVars, cliVars, syncVars>>

NextScan == FindExclusions \/ ExtractComponents

SpecScan == InitScan /\ [][NextScan]_vars

(***************************************************************************)
(* Claims about the handlers and the router (checked under Spec).          *)
(***************************************************************************)
\* the envelope the call returned
Env == result.value[1]

\* C1: ParfumoMapper.execute returns EXCLUDED exactly when find_exclusions of
\* the raw input is non-empty; it then reports exactly that list, the one
\* fixed note, and never reaches _search_and_match (no search query).
C1_ExclusionVeto ==
    (pc = "executed" /\ executed = <<"ParfumoMapper">>) =>
        /\ result.raised = None
        /\ (Env.status = "EXCLUDED") <=> (find_exclusions(input_text, exclusions) # <<>>)
        /\ find_exclusions(input_text, exclusions) # <<>> =>
                /\ Env.debug.excluded_terms_found = find_exclusions(input_text, exclusions)
                /\ Env.notes = << <<"Input contains exclusion terms">> >>
                /\ matcher_calls = 0
                /\ Env.debug.search_queries_used = <<>>

\* an excluded "Decant" listing: the raw text differs from its lowercase form
C1_Witness ==
    /\ pc = "executed"
    /\ executed = <<"ParfumoMapper">>
    /\ \E i \in 1..Len(input_text) : input_text[i] = "Decant"
    /\ Env.status = "EXCLUDED"
    /\ Env.debug.excluded_terms_found = << <<"decant">> >>
    /\ matcher_calls = 0

\* the text contains a configured exclusion term
HasExclusionTerm == \E k \in 1..Len(exclusions) : Contains(Lower(input_text), exclusions[k])

\* C2 as stated: for every registered mode, a text that contains a configured
\* exclusion term resolves to EXCLUDED with the term listed.
C2_EveryModeExcludes ==
    (pc = "routed" /\ mode \in DOMAIN skills /\ HasExclusionTerm) =>
        /\ result.raised = None
        /\ Env.status = "EXCLUDED"
        /\ \A k \in 1..Len(exclusions) :
              Contains(Lower(input_text), exclusions[k]) =>
                 \E j \in 1..Len(Env.debug.excluded_terms_found) :
                    Env.debug.excluded_terms_found[j] = exclusions[k]

\* C2 amended: only the Parfumo handler checks exclusions. For mode
\* DESC_TO_PARFUMO_URL a text containing a configured term resolves to
\* EXCLUDED with the term listed; the two stub handlers resolve every text to
\* NO_MATCH with nothing listed.
C2_OnlyParfumoExcludes ==
    (pc = "routed" /\ mode \in DOMAIN skills) =>
        /\ result.raised = None
        /\ (mode = "DESC_TO_PARFUMO_URL" /\ HasExclusionTerm) =>
                /\ Env.status = "EXCLUDED"
                /\ \A k \in 1..Len(exclusions) :
                      Contains(Lower(input_text), exclusions[k]) =>
                         \E j \in 1..Len(Env.debug.excluded_terms_found) :
                            Env.debug.excluded_terms_found[j] = exclusions[k]
        /\ mode # "DESC_TO_PARFUMO_URL" =>
                /\ Env.status = "NO_MATCH"
                /\ Env.debug.excluded_terms_found = <<>>

C2_Witness ==
    /\ pc = "routed"
    /\ mode = "DESC_TO_PARFUMO_URL"
    /\ HasExclusionTerm
    /\ Env.status = "EXCLUDED"

\* C3 as stated: a mode with no registered handler never makes route raise;
\* route returns NO_MATCH with the note "Unsupported MODE" and runs no handler.
C3_UnsupportedModeNoMatch ==
    (pc = "routed" /\ mode \notin DOMAIN skills) =>
        /\ result.raised = None
        /\ Env.status = "NO_MATCH"
        /\ Env.notes = << <<"Unsupported MODE">> >>
        /\ executed = <<>>

\* C4: for a registered mode, route runs exactly the handler registered under
\* that mode, whose MODE is the key, and returns what that handler returned,
\* with the envelope's mode equal to the requested mode.
C4_ExactlyOneHandler ==
    (pc = "routed" /\ mode \in DOMAIN skills) =>
        /\ Len(executed) = 1
        /\ executed[1] = skills[mode]
        /\ HandlerMODE(executed[1]) = mode
        /\ result = execute(executed[1], input_text, exclusions).out
        /\ result.raised = None
        /\ Env.mode = mode

C4_Witness ==
    /\ pc = "routed"
    /\ mode = "PARFUMO_TO_FRAGRANTICA_URL"
    /\ executed = <<"CrosswalkMapper">>
    /\ Env.mode = "PARFUMO_TO_FRAGRANTICA_URL"

(***************************************************************************)
(* Claims about the envelope (checked under SpecEnv).                      *)
(***************************************************************************)
\* C5 as stated: every envelope that can be constructed has a primary_url
\* exactly when its status is MATCH, alternates only when it is AMBIGUOUS.
C5_EnvelopeInvariant ==
    (pc \in {"built", "output"} /\ result.value # None) =>
        /\ (Env.primary_url # None) <=> (Env.status = "MATCH")
        /\ Env.alternates # <<>> => Env.status = "AMBIGUOUS"
        /\ Env.status \in {"EXCLUDED", "NO_MATCH"} =>
                (Env.primary_url = None /\ Env.alternates = <<>>)

RECURSIVE SplitLines(_)
SplitLines(s) ==
    LET nl == {i \in 1..Len(s) : s[i] = "\n"}
    IN IF nl = {} THEN <<s>>
       ELSE LET k == CHOOSE i \in nl : \A j \in nl : i <= j
            IN <<SubSeq(s, 1, k - 1)>> \o SplitLines(SubSeq(s, k + 1, Len(s)))

C8_FailFastValidation ==
    pc = "built" =>
        /\ (result.raised # None) <=>
              \/ Len(kwargs.alternates) > 5
              \/ (kwargs.confidence # None /\ (kwargs.confidence[1] < 0 \/ kwargs.confidence[1] > 10))
              \/ \E i \in 1..Len(kwargs.alternates) :
                    kwargs.alternates[i].confidence < 0 \/ kwargs.alternates[i].confidence > 10
        /\ result.raised = None =>
              /\ Env.alternates = kwargs.alternates
              /\ Env.confidence = kwargs.confidence

\* six valid alternates and a valid confidence: rejected, not truncated
C8_Witness ==
    /\ pc = "built"
    /\ Len(kwargs.alternates) = 6
    /\ \A i \in 1..6 : kwargs.alternates[i].confidence \in {0, 10}
    /\ kwargs.confidence = Some(10)
    /\ result.raised = Some("ValidationError")

(***************************************************************************)
(* Claims about find_exclusions and extract_components (checked under      *)
(* SpecScan).                                                              *)
(***************************************************************************)
\* what find_exclusions returned
Found == result.value[1]

\* C12: find_exclusions returns exactly the configured terms that occur in the
\* text as a case-insensitive substring, each once however often it occurs,
\* in the declared order of the exclusion list and not in the order of
\* occurrence in the text.
C12_FindExclusionsExactOrdered ==
    pc = "found" =>
        /\ \A k \in 1..Len(exclusions) :
              Contains(Lower(input_text), exclusions[k]) <=>
                 \E j \in 1..Len(Found) : Found[j] = exclusions[k]
        /\ \A j \in 1..Len(Found) : \E k \in 1..Len(exclusions) : Found[j] = exclusions[k]
        /\ \A i, j \in 1..Len(Found) : i < j =>
              /\ Found[i] # Found[j]
              /\ \E a, b \in 1..Len(exclusions) :
                    a < b /\ exclusions[a] = Found[i] /\ exclusions[b] = Found[j]

\* "mini" stands before "decant" in the text and after it in the list, and
\* "decant" occurs twice
C12_Witness ==
    /\ pc = "found"
    /\ input_text = <<"MINI", "Decant", "Decant">>
    /\ exclusions = DEFAULT_EXCLUSIONS
    /\ Found = << <<"decant">>, <<"mini">> >>

(***************************************************************************)
(* C13: which exclusion list the Parfumo handler scans with (checked under *)
(* Spec).                                                                  *)
(***************************************************************************)
\* the terms the handler reported
Detected ==
    {Env.debug.excluded_terms_found[j] : j \in 1..Len(Env.debug.excluded_terms_found)}

\* the terms of the list L, compared in lowercase, that occur in the input
Occurring(L) ==
    {Lower(L[k]) : k \in {n \in 1..Len(L) : Contains(Lower(input_text), Lower(L[n]))}}

\* the section of the configuration for the requested mode
ModeSection == Get(Get(config, "modes", <<>>), mode, <<>>)

\* C13 as stated: an exclusions list configured for the mode replaces the
\* default list of that mode's handler; the handler detects exactly the
\* configured terms, and exactly the default terms when the mode has no list.
C13_ModeListOverrides ==
    (pc = "executed" /\ executed = <<"ParfumoMapper">>) =>
        /\ "exclusions" \in DOMAIN ModeSection =>
                Detected = Occurring(ModeSection.exclusions)
        /\ "exclusions" \notin DOMAIN ModeSection =>
                Detected = Occurring(DEFAULT_EXCLUSIONS)

\* C13 amended: the list under the global section replaces the default list
\* of the Parfumo handler, which detects exactly its terms compared in
\* lowercase and no default term missing from it; without a global list --
\* also when a list stands under the mode's section -- exactly the default
\* terms are used.
C13_GlobalListOverrides ==
    (pc = "executed" /\ executed = <<"ParfumoMapper">>) =>
        /\ ("global" \in DOMAIN config /\ "exclusions" \in DOMAIN config.global) =>
                Detected = Occurring(config.global.exclusions)
        /\ ~("global" \in DOMAIN config /\ "exclusions" \in DOMAIN config.global) =>
                Detected = Occurring(DEFAULT_EXCLUSIONS)

\* with the global list ["Box only"], the default term "decant" is not detected
C13_Witness ==
    /\ pc = "executed"
    /\ executed = <<"ParfumoMapper">>
    /\ "global" \in DOMAIN config
    /\ input_text = <<"Decant">>
    /\ Env.debug.excluded_terms_found = <<>>
    /\ Env.status # "EXCLUDED"

(***************************************************************************)
(* Claims about extract_components (checked under SpecScan).               *)
(***************************************************************************)
\* the mapping extract_components returned
Components == result.value[1]

\* class k of EDP, EDT, EDC, Parfum has a whole-word synonym in the text
HasSynonym(k) == Search(CONCENTRATION_PATTERNS[k].pattern, Lower(input_text))

\* the phrase w occurs in the text, in any letter case, as whole words
OccursAsWords(w) ==
    \E i \in 1..(Len(input_text) - Len(w) + 1) :
        /\ SubSeq(Lower(input_text), i, i + Len(w) - 1) = w
        /\ WordBoundary(input_text, i)
        /\ WordBoundary(input_text, i + Len(w))

\* C14: concentration is the label of the first class, in the order EDP, EDT,
\* EDC, Parfum, that has a whole-word synonym in the text, and is absent when
\* no class has one.
C14_ConcentrationPrecedence ==
    pc = "extracted" =>
        /\ \A k \in 1..4 :
              (HasSynonym(k) /\ \A j \in 1..(k - 1) : ~HasSynonym(j)) =>
                 Components.concentration =
                    Some(<< <<"EDP">>, <<"EDT">>, <<"EDC">>, <<"Parfum">> >>[k])
        /\ (\A k \in 1..4 : ~HasSynonym(k)) => Components.concentration = None
        /\ OccursAsWords(<<"eau", " ", "de", " ", "parfum">>) =>
                 Components.concentration = Some(<<"EDP">>)

\* "parfum" stands first in the text, "eau de parfum" after it
C14_Witness ==
    /\ pc = "extracted"
    /\ input_text = <<"parfum", " ", "eau", " ", "de", " ", "parfum">>
    /\ Components.concentration = Some(<<"EDP">>)

\* where a milliliter literal, and where an ounce literal, starts in the text t
MlLiterals(t) == {i \in 1..Len(t) : MlMatch(t, NumberEnd(t, i))}
OzLiterals(t) == {i \in 1..Len(t) : OzMatch(t, NumberEnd(t, i))}
\* the number of the first literal of S in t
FirstNumber(t, S) == NumberAt(t, MinOf(S), NumberEnd(t, MinOf(S)))
\* a size as extract_components reports it: 0 is reported as absent
Reported(v) == IF v = 0 THEN None ELSE Some(v)

\* size is the number n of milliliters, truncated toward zero
IsTruncatedMl(n, size) ==
    \E v \in 0..n.units :
        /\ v * n.scale <= n.units * n.scale + n.frac
        /\ n.units * n.scale + n.frac < (v + 1) * n.scale
        /\ size = Reported(v)

\* size is the number n of ounces times 29.5735, truncated toward zero: 29 per
\* whole ounce and the whole part w of the remaining 0.5735 n.units + 29.5735 n.frac
IsTruncatedOz(n, size) ==
    \E w \in 0..(n.units + 30) :
        /\ w * n.scale * 10000 <= n.units * 5735 * n.scale + n.frac * 295735
        /\ n.units * 5735 * n.scale + n.frac * 295735 < (w + 1) * n.scale * 10000
        /\ size = Reported(29 * n.units + w)

\* the rule of C15 for the text t, its literals ml and oz, and the reported size
SizeFollowsRule(t, ml, oz, size) ==
    /\ ml # {} => IsTruncatedMl(FirstNumber(t, ml), size)
    /\ (ml = {} /\ oz # {}) => IsTruncatedOz(FirstNumber(t, oz), size)
    /\ (ml = {} /\ oz = {}) => size = None

\* C15: with a milliliter literal in the text, size_ml is the first one's
\* value truncated, wherever an ounce literal stands; only without one it is
\* the first ounce literal times 29.5735, truncated (3.4 oz gives 100);
\* without either it is absent.  A value of 0 is reported as absent.
C15_SizeMlBeforeOz ==
    pc = "extracted" =>
        /\ SizeFollowsRule(Lower(input_text), MlLiterals(Lower(input_text)),
                           OzLiterals(Lower(input_text)), Components.size_ml)
        /\ input_text = <<"3", ".", "4", " ", "oz">> => Components.size_ml = Some(100)

\* the ounce literal stands first, the milliliter literal is used
C15_Witness ==
    /\ pc = "extracted"
    /\ input_text = <<"3", ".", "4", "oz", "5", "ml">>
    /\ Components.size_ml = Some(5)

\* a standalone token of four digits that begins with 19 or 20 starts at t[i]
YearTokenAt(t, i) ==
    /\ i + 3 <= Len(t)
    /\ <<t[i], t[i + 1]>> \in {<<"1", "9">>, <<"2", "0">>}
    /\ IsDigit(t[i + 2]) /\ IsDigit(t[i + 3])
    /\ ~IsWordAt(t, i - 1)
    /\ ~IsWordAt(t, i + 4)

\* the four digits at t[i..i+3] read as a number
YearTokenValue(t, i) ==
    1000 * DigitValue(t[i]) + 100 * DigitValue(t[i + 1])
        + 10 * DigitValue(t[i + 2]) + DigitValue(t[i + 3])

\* year is the value of the first token of the set tokens, absent without one
YearIsFirstToken(t, tokens, year) ==
    /\ tokens = {} => year = None
    /\ tokens # {} => year = Some(YearTokenValue(t, MinOf(tokens)))
    /\ year # None => (year[1] >= 1900 /\ year[1] <= 2099)

TargetFollowsOrder(men, women, unisex, target) ==
    /\ men => target = Some(<<"men">>)
    /\ (~men /\ women) => target = Some(<<"women">>)
    /\ (~men /\ ~women /\ unisex) => target = Some(<<"unisex">>)
    /\ (~men /\ ~women /\ ~unisex) => target = None
    /\ target \in {None, Some(<<"men">>), Some(<<"women">>), Some(<<"unisex">>)}

\* C17: target is decided by class, men-phrases before women-phrases before
\* unisex, wherever the phrases stand; it is one of men, women, unisex or
\* absent, and a text with both "for men" and "unisex" gives men.
C17_TargetClassOrder ==
    pc = "extracted" =>
        /\ TargetFollowsOrder(Search(MEN_PATTERN, Lower(input_text)),
                              Search(WOMEN_PATTERN, Lower(input_text)),
                              Search(UNISEX_PATTERN, Lower(input_text)),
                              Components.target)
        /\ (OccursAsWords(<<"for", " ", "men">>) /\ OccursAsWords(<<"unisex">>)) =>
              Components.target = Some(<<"men">>)

\* "unisex" stands before "for men"
C17_Witness ==
    /\ pc = "extracted"
    /\ input_text = <<"unisex", " ", "for", " ", "men">>
    /\ Components.target = Some(<<"men">>)

\* the flanker vocabulary in title case, in listed order
TitledFlankers == <<
    <<"Intense">>, <<"Absolu">>, <<"Absolu", "te">>, <<"Elixir">>, <<"Sport">>, <<"Nuit">>,
    <<"Noir">>, <<"Extreme">>, <<"Privee">>, <<"Reserve">>, <<"Limited", " ", "Edition">>,
    <<"Collector">>, <<"Oud">>, <<"Exclusive">> >>

\* flanker is the titled form of the first listed term among those occurring
FlankerIsFirstListed(occurring, flanker) ==
    /\ occurring = {} => flanker = None
    /\ \A k \in occurring :
          (\A j \in occurring : k <= j) => flanker = Some(TitledFlankers[k])

\* C18: flanker is the title-cased form of the first term of the vocabulary,
\* in listed order, that occurs in the text as a case-insensitive substring,
\* whatever the order of the terms in the text; absent when none occurs.
C18_FlankerFirstListed ==
    pc = "extracted" =>
        FlankerIsFirstListed(
            {k \in 1..Len(FLANKER_TERMS) : Contains(Lower(input_text), FLANKER_TERMS[k])},
            Components.flanker)

\* "oud" stands first in the text, "intense" first in the list
C18_Witness ==
    /\ pc = "extracted"
    /\ input_text = <<"Oud", " ", "Intense">>
    /\ Components.flanker = Some(<<"Intense">>)

\* C19: extract_components returns a mapping with exactly the seven keys
\* brand, name, concentration, size_ml, flanker, year, target, in which brand
\* and name are absent.
C19_SevenKeysNoBrandNoName ==
    pc = "extracted" =>
        /\ DOMAIN Components =
              {"brand", "name", "concentration", "size_ml", "flanker", "year", "target"}
        /\ Components.brand = None
        /\ Components.name = None

\* a text that begins with a word and has a concentration
C19_Witness ==
    /\ pc = "extracted"
    /\ input_text = <<"q", " ", "eau", " ", "de", " ", "parfum">>
    /\ Components.concentration = Some(<<"EDP">>)
    /\ Components.name = None

(***************************************************************************)
(* C20: the placeholder handlers (checked under Spec).                     *)
(***************************************************************************)
\* the request is for a mode served by a placeholder handler
StubRequested ==
    mode \in DOMAIN skills /\ skills[mode] \in {"FragranticaMapper", "CrosswalkMapper"}

\* C20: a placeholder handler resolves every text, without raising and
\* without blocking, to the same envelope: status NO_MATCH, its own mode, one
\* explanatory note, empty input_summary and empty debug; the simple output
\* of such a request is "NOT_FOUND".
C20_StubResolvesNoMatch ==
    /\ (pc = "ready" /\ StubRequested) => (ENABLED Execute /\ ENABLED GetSimpleOutput)
    /\ (pc = "executed" /\ StubRequested) =>
          /\ result.raised = None
          /\ Env.status = "NO_MATCH"
          /\ Env.mode = HandlerMODE(skills[mode])
          /\ Len(Env.notes) = 1
          /\ Env.notes[1] = <<IF skills[mode] = "FragranticaMapper"
                               THEN "FragranticaMapper is not implemented yet"
                               ELSE "CrosswalkMapper is not implemented yet">>
          /\ \A f \in DOMAIN Env.input_summary : Env.input_summary[f] = None
          /\ Env.debug.excluded_terms_found = <<>>
          /\ Env.debug.normalized_title = None
          /\ Env.debug.search_queries_used = <<>>
          /\ Env.primary_url = None
          /\ Env.alternates = <<>>
          /\ matcher_calls = 0
    /\ (pc = "simple" /\ StubRequested) => simple = Some(<<"NOT_FOUND">>)

\* a text with an exclusion term and a concentration, given to a placeholder
C20_Witness ==
    /\ pc = "executed"
    /\ executed = <<"FragranticaMapper">>
    /\ input_text = <<"Decant", " ", "EDP">>
    /\ Env.status = "NO_MATCH"
    /\ Env.input_summary.concentration = None

(***************************************************************************)
(* C21: empty and whitespace-only input (checked under Spec).              *)
(***************************************************************************)
\* the text is empty or has whitespace only
Blank(t) == \A i \in 1..Len(t) : IsSpace(t[i])

\* every field of the mapping or summary s is absent
AllAbsent(s) ==
    /\ DOMAIN s = {"brand", "name", "concentration", "size_ml", "flanker", "year", "target"}
    /\ \A f \in DOMAIN s : s[f] = None

\* C21: for an empty or whitespace-only text extract_components yields all
\* seven fields absent and find_exclusions an empty list; ParfumoMapper.execute
\* returns, without raising, a NO_MATCH envelope with no search query.
C21_BlankInputNoMatch ==
    Blank(input_text) =>
        /\ AllAbsent(extract_components(input_text))
        /\ find_exclusions(input_text, exclusions) = <<>>
        /\ (pc \in {"executed", "routed"} /\ executed = <<"ParfumoMapper">>) =>
              /\ result.raised = None
              /\ Env.status = "NO_MATCH"
              /\ Env.debug.search_queries_used = <<>>
              /\ Env.debug.excluded_terms_found = <<>>
              /\ AllAbsent(Env.input_summary)
              /\ Env.notes = << <<"Insufficient information to search">> >>

\* ParfumoMapper.execute has returned for a text of two spaces
C21_Witness ==
    /\ pc = "executed"
    /\ executed = <<"ParfumoMapper">>
    /\ input_text = <<" ", " ">>
    /\ Env.status = "NO_MATCH"
    /\ Env.debug.search_queries_used = <<>>

(***************************************************************************)
(* C24: the search query of ParfumoMapper (checked under Spec).            *)
(***************************************************************************)
\* ParfumoMapper.execute has returned an envelope for a text without exclusion term
ParfumoSearched ==
    /\ pc = "executed"
    /\ executed = <<"ParfumoMapper">>
    /\ result.raised = None
    /\ find_exclusions(input_text, exclusions) = <<>>

\* the fields brand, name, flanker, concentration of the summary s that are
\* present, in this order, separated by single spaces
RECURSIVE PresentFields(_, _)
PresentFields(s, names) ==
    IF names = <<>> THEN <<>>
    ELSE IF s[Head(names)] = None THEN PresentFields(s, Tail(names))
    ELSE IF PresentFields(s, Tail(names)) = <<>> THEN s[Head(names)][1]
    ELSE s[Head(names)][1] \o <<" ">> \o PresentFields(s, Tail(names))

\* the envelope env records exactly the query q and echoes it in its second note
RecordsQuery(env, q) ==
    /\ env.status = "NO_MATCH"
    /\ env.debug.search_queries_used = <<q>>
    /\ Len(env.notes) = 2
    /\ env.notes[2] = <<"Would search: ">> \o q

\* C24: for a non-excluded input ParfumoMapper records at most one query: with
\* neither flanker nor concentration extracted it returns NO_MATCH with the
\* note "Insufficient information to search" and no query; otherwise exactly
\* one query, "site:parfumo.com Perfumes " followed by the present fields in
\* the order brand, name, flanker, concentration, echoed in "Would search:".
C24_AtMostOneQuery ==
    ParfumoSearched =>
        /\ Len(Env.debug.search_queries_used) <= 1
        /\ Env.input_summary = extract_components(input_text)
        /\ (Env.input_summary.flanker = None /\ Env.input_summary.concentration = None) =>
              /\ Env.status = "NO_MATCH"
              /\ Env.notes = << <<"Insufficient information to search">> >>
              /\ Env.debug.search_queries_used = <<>>
        /\ (Env.input_summary.flanker # None \/ Env.input_summary.concentration # None) =>
              RecordsQuery(Env,
                  <<"site:parfumo.com Perfumes ">>
                      \o PresentFields(Env.input_summary,
                                       <<"brand", "name", "flanker", "concentration">>))

\* the concentration stands before the flanker in the text, after it in the query
C24_Witness ==
    /\ ParfumoSearched
    /\ input_text = <<"EDP", " ", "intense">>
    /\ Env.debug.search_queries_used =
          << <<"site:parfumo.com Perfumes ", "Intense", " ", "EDP">> >>

(***************************************************************************)
(* C27: no call finds a page (checked under Spec).                         *)
(***************************************************************************)
\* C27: every envelope route or a handler's execute returns, for every mode
\* and every text, has status NO_MATCH or EXCLUDED, no primary_url, no
\* confidence and no alternates; so get_simple_output returns "NOT_FOUND" for
\* every mode and every text.
C27_NothingIsFound ==
    /\ (pc \in {"routed", "executed", "simple"} /\ result.value # None) =>
          /\ Env.status \in {"NO_MATCH", "EXCLUDED"}
          /\ Env.primary_url = None
          /\ Env.confidence = None
          /\ Env.alternates = <<>>
    /\ pc = "simple" => simple = Some(<<"NOT_FOUND">>)

(***************************************************************************)
(* C29: a size of 0 (checked under SpecScan).                              *)
(***************************************************************************)
\* the number n of ounces is less than one milliliter
IsBelowOneMl(n) == n.units = 0 /\ n.frac * OZ_TO_ML < n.scale * OZ_SCALE

\* the size is absent when the literal _extract_size_ml reads truncates to 0:
\* the first milliliter literal, whether or not an ounce literal stands in
\* the text, and without a milliliter literal the first ounce literal
ZeroSizeIsAbsent(t, ml, oz, size) ==
    /\ (ml # {} /\ FirstNumber(t, ml).units = 0) => size = None
    /\ (ml = {} /\ oz # {} /\ IsBelowOneMl(FirstNumber(t, oz))) => size = None

\* C29: extract_components never reports size_ml = 0: a literal whose value
\* truncates to 0 ("0ml", "0.5 ml") leaves size_ml absent, and an ounce
\* literal in the same text is not used in place of such a milliliter literal.
C29_SizeNeverZero ==
    pc = "extracted" =>
        /\ Components.size_ml # Some(0)
        /\ ZeroSizeIsAbsent(Lower(input_text), MlLiterals(Lower(input_text)),
                            OzLiterals(Lower(input_text)), Components.size_ml)
        /\ input_text \in {<<"0", "ml">>, <<"0", ".", "5", "ml">>, <<"0", ".", "5", " ", "ml">>}
              => Components.size_ml = None

\* 5 oz would be 147 ml; the literal 0ml is read and nothing is reported
C29_Witness ==
    /\ pc = "extracted"
    /\ input_text = <<"5", "oz", "0", "ml">>
    /\ OzLiterals(input_text) # {}
    /\ Components.size_ml = None

(***************************************************************************)
(* C30: the vocabulary term "absolute" (checked under SpecScan).           *)
(***************************************************************************)
\* C30: extract_components never produces the flanker "Absolute": "absolu"
\* stands before it in the vocabulary and is a substring of it, so a text
\* with "absolute" yields "Absolu" or the term listed before it; each other
\* term of the vocabulary is produced, for one by the term given as the text.
C30_AbsoluteNeverProduced ==
    pc = "extracted" =>
        /\ Components.flanker # Some(<<"Absolu", "te">>)
        /\ Contains(Lower(input_text), <<"absolu", "te">>) =>
              Components.flanker \in {Some(<<"Intense">>), Some(<<"Absolu">>)}
        /\ \A k \in 1..Len(TitledFlankers) :
              (TitledFlankers[k] # <<"Absolu", "te">> /\ input_text = Lower(TitledFlankers[k]))
                  => Components.flanker = Some(TitledFlankers[k])

\* the text "absolute" itself yields "Absolu"
C30_Witness ==
    /\ pc = "extracted"
    /\ input_text = <<"absolu", "te">>
    /\ Components.flanker = Some(<<"Absolu">>)

(***************************************************************************)
(* One router, several route calls in progress at once.  A call advances   *)
(* in the steps at which a thread can be preempted between the reads and   *)
(* writes of shared objects: the lookup in _skills, _extract_clues, the    *)
(* exclusion check, the append of the query, the return.  Each list a      *)
(* DebugInfo holds is an object of the heap, known by its identity.        *)
(***************************************************************************)
MaxCalls == 2
CallIds == 1..MaxCalls

\* the requests made of the router
Requests ==
    {[mode |-> "DESC_TO_PARFUMO_URL", input_text |-> t] :
        t \in {<<"EDP">>, <<"intense">>, <<"Decant">>, <<"q">>}}
    \cup {[mode |-> m, input_text |-> <<"EDP">>] :
            m \in {"DESC_TO_FRAGRANTICA_URL", "PARFUMO_TO_FRAGRANTICA_URL"}}
    \cup {[mode |-> "INVALID_MODE", input_text |-> <<"q">>]}

\* a call that has not started
NewCall(request) ==
    [pc |-> "ready", mode |-> request.mode, input_text |-> request.input_text,
     skill |-> None, input_summary |-> None, debug_info |-> None,
     search_query |-> None, result |-> NoResult]

\* a DebugInfo whose shared list of queries is the one every instance gets
shared_default_list(h) == 1

\* Field(default_factory=list): the identity of the list a new DebugInfo gets
default_factory_list(h) == Len(h) + 1

\* the heap once the list l exists
Allocated(h, l) == IF l > Len(h) THEN Append(h, <<>>) ELSE h

\* an append that reaches every list of the heap
append_to_every_list(h, l, search_query) ==
    [k \in 1..Len(h) |-> Append(h[k], search_query)]

\* debug_info.search_queries_used.append(search_query)
append(h, l, search_query) == [h EXCEPT ![l] = Append(@, search_query)]

\* DebugInfo(normalized_title=..., excluded_terms_found=...) holding the list l
debug_info_of(clues, l) == [clues.debug_info EXCEPT !.search_queries_used = l]

\* the MapperOutput a handler returns with the given status and notes
envelope_of(h, input_summary, debug_info, status, notes) ==
    MapperOutput(
        [MapperOutputDefaults EXCEPT
            !.input_summary = input_summary, !.debug = debug_info, !.notes = notes]
        @@ [mode |-> HandlerMODE(h), status |-> status])

\* the envelope as a reader sees it: the list of queries read through its identity
Seen(r, h) ==
    IF r.value = None THEN r
    ELSE [r EXCEPT !.value = Some([r.value[1] EXCEPT !.debug.search_queries_used = h[@]])]

\* the configurations whose exclusion list the handlers read: none, or a global list
ParConfigs == {cfg \in Configs : "modes" \notin DOMAIN cfg}

InitPar ==
    /\ IdleCli /\ IdleSync
    /\ pc = "serving"
    /\ config \in ParConfigs
    /\ skills = initialize_skills
    /\ exclusions = load_exclusions(config)
    /\ calls \in [CallIds -> {NewCall(request) : request \in Requests}]
    /\ heap = <<>>
    /\ mode = None
    /\ input_text = <<>>
    /\ result = NoResult
    /\ executed = <<>>
    /\ matcher_calls = 0
    /\ simple = None
    /\ kwargs = None
    /\ normalized = None
    /\ renormalized = None

\* what no step of a route call writes
RouterUnchanged ==
    UNCHANGED <<pc, config, skills, exclusions, mode, input_text, result, executed,
                matcher_calls, simple, kwargs, normalized, renormalized, cliVars, syncVars>>

\* skill = self._skills.get(mode); without a handler route builds its own envelope
Lookup(c) ==
    /\ calls[c].pc = "ready"
    /\ calls' = [calls EXCEPT ![c] =
          IF calls[c].mode \notin DOMAIN skills
          THEN [calls[c] EXCEPT !.pc = "done",
                         !.result = route(skills, exclusions, calls[c].mode, calls[c].input_text).out]
          ELSE [calls[c] EXCEPT !.pc = "execute", !.skill = Some(skills[calls[c].mode])]]
    /\ UNCHANGED heap
    /\ RouterUnchanged

\* input_summary, debug_info = self._extract_clues(input_text)
ExtractClues(c) ==
    /\ calls[c].pc = "execute"
    /\ calls[c].skill = Some("ParfumoMapper")
    /\ heap' = Allocated(heap, default_factory_list(heap))
    /\ calls' = [calls EXCEPT ![c] =
          [calls[c] EXCEPT !.pc = "clues",
                    !.input_summary =
                        Some(extract_clues(calls[c].input_text, exclusions).input_summary),
                    !.debug_info =
                        Some(debug_info_of(extract_clues(calls[c].input_text, exclusions),
                                           default_factory_list(heap)))]]
    /\ RouterUnchanged

\* if debug_info.excluded_terms_found: return MapperOutput(status=EXCLUDED, ...)
CheckExclusions(c) ==
    /\ calls[c].pc = "clues"
    /\ calls' = [calls EXCEPT ![c] =
          IF Truthy(calls[c].debug_info[1].excluded_terms_found)
          THEN [calls[c] EXCEPT !.pc = "done",
                         !.result = envelope_of("ParfumoMapper", calls[c].input_summary[1],
                                                calls[c].debug_info[1], "EXCLUDED",
                                                << <<"Input contains exclusion terms">> >>)]
          ELSE [calls[c] EXCEPT !.pc = "search"]]
    /\ UNCHANGED heap
    /\ RouterUnchanged

\* _search_and_match up to debug_info.search_queries_used.append(search_query)
BuildQuery(c) ==
    /\ calls[c].pc = "search"
    /\ IF ~Truthy(query_parts_of(calls[c].input_summary[1]))
       THEN /\ calls' = [calls EXCEPT ![c] =
                  [calls[c] EXCEPT !.pc = "done",
                            !.result = envelope_of("ParfumoMapper", calls[c].input_summary[1],
                                           calls[c].debug_info[1], "NO_MATCH",
                                           << <<"Insufficient information to search">> >>)]]
            /\ UNCHANGED heap
       ELSE /\ calls' = [calls EXCEPT ![c] =
                  [calls[c] EXCEPT !.pc = "appended",
                            !.search_query =
                                Some(search_query_of(query_parts_of(calls[c].input_summary[1])))]]
            /\ heap' = append(heap, calls[c].debug_info[1].search_queries_used,
                              search_query_of(query_parts_of(calls[c].input_summary[1])))
    /\ RouterUnchanged

\* the placeholder return of _search_and_match, passed on by execute and route
ReturnNoMatch(c) ==
    /\ calls[c].pc = "appended"
    /\ calls' = [calls EXCEPT ![c] =
          [calls[c] EXCEPT !.pc = "done",
                    !.result = envelope_of("ParfumoMapper", calls[c].input_summary[1],
                                   calls[c].debug_info[1], "NO_MATCH",
                                   << <<"Placeholder implementation - requires web search integration">>,
                                      <<"Would search: ">> \o calls[c].search_query[1] >>)]]
    /\ UNCHANGED heap
    /\ RouterUnchanged

\* execute of a placeholder handler: MapperOutput(..., debug=DebugInfo(), ...)
StubExecute(c) ==
    /\ calls[c].pc = "execute"
    /\ calls[c].skill # Some("ParfumoMapper")
    /\ heap' = Allocated(heap, default_factory_list(heap))
    /\ calls' = [calls EXCEPT ![c] =
          [calls[c] EXCEPT !.pc = "done",
                    !.result = envelope_of(calls[c].skill[1], InputSummary,
                                   [DebugInfo EXCEPT !.search_queries_used =
                                                         default_factory_list(heap)],
                                   "NO_MATCH",
                                   << <<IF calls[c].skill[1] = "FragranticaMapper"
                                        THEN "FragranticaMapper is not implemented yet"
                                        ELSE "CrosswalkMapper is not implemented yet">> >>)]]
    /\ RouterUnchanged

NextPar ==
    \E c \in CallIds :
        \/ Lookup(c)
        \/ ExtractClues(c)
        \/ CheckExclusions(c)
        \/ BuildQuery(c)
        \/ ReturnNoMatch(c)
        \/ StubExecute(c)

SpecPar == InitPar /\ [][NextPar]_vars

(***************************************************************************)
(* C22, C28: concurrent requests (checked under SpecPar).                  *)
(***************************************************************************)
\* C22: requests are independent: under every interleaving of the route
\* calls on one router, also of calls served by the same handler instance,
\* each call returns what it would return if it ran alone, and no call works
\* on a list another call allocated.
C22_RequestsIndependent ==
    \A c \in CallIds :
        /\ calls[c].pc = "done" =>
              Seen(calls[c].result, heap)
                  = route(skills, exclusions, calls[c].mode, calls[c].input_text).out
        /\ \A d \in CallIds \ {c} :
              (calls[c].debug_info # None /\ calls[d].debug_info # None) =>
                  calls[c].debug_info[1].search_queries_used
                      # calls[d].debug_info[1].search_queries_used

\* call 1 has returned its query; call 2, which allocated its list before
\* call 1 did, has appended another query and not yet returned
C22_Witness ==
    /\ calls[1].pc = "done"
    /\ calls[2].pc = "appended"
    /\ calls[1].mode = calls[2].mode
    /\ calls[1].input_text = <<"EDP">>
    /\ calls[2].input_text = <<"intense">>
    /\ calls[2].debug_info[1].search_queries_used
          < calls[1].debug_info[1].search_queries_used
    /\ Seen(calls[1].result, heap).value[1].debug.search_queries_used
          = << <<"site:parfumo.com Perfumes ", "EDP">> >>

\* the router's tables are those built at construction
AsConstructed == skills = initialize_skills /\ exclusions = load_exclusions(config)

\* a step leaves the router and every envelope already returned as they are
KeepsRouterAndReturned ==
    /\ config' = config
    /\ skills' = skills
    /\ exclusions' = exclusions
    /\ \A c \in CallIds :
          calls[c].pc = "done" =>
              /\ calls'[c] = calls[c]
              /\ Seen(calls'[c].result, heap') = Seen(calls[c].result, heap)

\* C28: a route call leaves the handler table, the loaded configuration and
\* each handler's exclusion list unchanged and never alters an envelope an
\* earlier call returned; after any sequence of calls they are as they were
\* right after the router's construction.  (The class-level pattern and
\* vocabulary tables are read only: they are the constant operators above.)
C28_RouteFrame == []AsConstructed /\ [][KeepsRouterAndReturned]_vars

\* both calls have returned, each with its own query
C28_Witness ==
    /\ calls[1].pc = "done"
    /\ calls[2].pc = "done"
    /\ calls[1].input_text = <<"intense">>
    /\ calls[2].input_text = <<"EDP">>
    /\ calls[1].mode = "DESC_TO_PARFUMO_URL"
    /\ calls[2].mode = "DESC_TO_PARFUMO_URL"
    /\ Seen(calls[1].result, heap).value[1].debug.search_queries_used
          = << <<"site:parfumo.com Perfumes ", "Intense">> >>
    /\ Seen(calls[2].result, heap).value[1].debug.search_queries_used
          = << <<"site:parfumo.com Perfumes ", "EDP">> >>
    /\ AsConstructed

(***************************************************************************)
(* cli.py: one run of the command-line interface.  args is the namespace   *)
(* parse_args returned: argparse has already rejected a --mode outside     *)
(* the Mode values.  The run constructs its own router.                    *)
(***************************************************************************)
\* the VERSION class attributes
RouterVERSION == <<"1.0.0">>
LAST_UPDATED == <<"2026-01-10">>
HandlerVERSION(h) ==
    CASE h = "ParfumoMapper" -> <<"1.0.0">>
      [] h = "FragranticaMapper" -> <<"1.1.0">>
      [] h = "CrosswalkMapper" -> <<"1.1.0">>

\* the members of Mode in declaration order: the key order of _skills
ModeOrder ==
    <<"DESC_TO_PARFUMO_URL", "DESC_TO_FRAGRANTICA_URL", "PARFUMO_TO_FRAGRANTICA_URL">>

\* FragMapperRouter.get_version_info; the key f"skill_{mode.value}" is <<"skill_", mode>>
get_version_info(cfg, table) ==
    [k \in {<<"router">>, <<"router_last_updated">>, <<"config_version">>}
              \cup {<<"skill_", m>> : m \in DOMAIN table} |->
        CASE k = <<"router">> -> RouterVERSION
          [] k = <<"router_last_updated">> -> LAST_UPDATED
          [] k = <<"config_version">> -> Get(cfg, "version", <<"unknown">>)
          [] OTHER -> HandlerVERSION(table[k[2]])]

\* _load_config for the --config argument: no argument and no file at the
\* default path, a rules file, a file yaml.safe_load cannot parse
load_config(path) ==
    CASE path = None -> Returned(<<>>)
      [] path = Some("rules.yml") ->
            Returned([version |-> <<"1.0.0">>,
                      global |-> [exclusions |-> << <<"Box", " ", "only">> >>]])
      [] path = Some("broken.yml") -> Raised("YAMLError")

\* print(line)
Line(text) == [kind |-> "text", value |-> text]
\* print(result.model_dump_json(indent=2))
Json(env) == [kind |-> "json", value |-> env]

\* how a run of main ends
Exit(code, out, err, n, r) ==
    [exit_code |-> code, stdout |-> out, stderr |-> err, route_calls |-> n, result |-> r]

\* the lines "if args.version:" prints
version_lines(version_info) ==
    <<Line(<<"FragMapper v">> \o version_info[<<"router">>]),
      Line(<<"Config version: ">> \o version_info[<<"config_version">>])>>
    \o [i \in 1..Len(ModeOrder) |->
          Line(<<"  ", ModeOrder[i], ": v">> \o version_info[<<"skill_", ModeOrder[i]>>])]

\* the lines "if args.list_modes:" prints
mode_lines ==
    <<Line(<<"Supported modes:">>)>>
    \o [i \in 1..Len(ModeOrder) |-> Line(<<"  ", ModeOrder[i]>>)]

\* the try block of main, given what router.route did
processed(a, r) ==
    IF r.out.raised # None
    THEN Exit(1, <<>>, <<Line(<<"Error: ", r.out.raised[1]>>)>>, 1, r.out)
    ELSE Exit(0,
              <<IF a.json THEN Json(r.out.value[1])
                ELSE Line(to_simple_output(r.out.value[1]))>>,
              <<>>, 1, r.out)

\* main after the router is constructed with the configuration cfg
with_router(a, cfg) ==
    IF a.version THEN Exit(0, version_lines(get_version_info(cfg, initialize_skills)),
                           <<>>, 0, NoResult)
    ELSE IF a.list_modes THEN Exit(0, mode_lines, <<>>, 0, NoResult)
    ELSE IF a.mode = None
    THEN Exit(2, <<>>, <<Line(<<"--mode is required when processing input">>)>>, 0, NoResult)
    ELSE IF ~TruthyOpt(a.input)
    THEN Exit(2, <<>>, <<Line(<<"--input is required when processing input">>)>>, 0, NoResult)
    ELSE processed(a, route(initialize_skills, load_exclusions(cfg), a.mode[1], a.input[1]))

\* cli.main, given what the router's _load_config did
main(a, loaded) ==
    IF loaded.raised # None
    THEN Exit(1, <<>>, <<Line(<<"Error initializing router: ", loaded.raised[1]>>)>>, 0,
              NoResult)
    ELSE with_router(a, loaded.value[1])

\* the texts given with --input
CliTexts == {<<>>, <<"q">>, <<"Decant">>, <<"EDP">>}

\* the namespaces parse_args can return
CliArgs ==
    [version : BOOLEAN, list_modes : BOOLEAN,
     mode : {None} \cup {Some(m) : m \in Modes},
     input : {None} \cup {Some(t) : t \in CliTexts},
     json : BOOLEAN,
     config : {None, Some("rules.yml"), Some("broken.yml")}]

InitCli ==
    /\ IdlePar /\ IdleSync
    /\ Idle
    /\ pc = "start"
    /\ input_text = <<>>
    /\ normalized = None
    /\ renormalized = None
    /\ args \in CliArgs
    /\ exit_code = None
    /\ stdout = <<>>
    /\ stderr = <<>>
    /\ route_calls = 0

\* router = FragMapperRouter(config_path=config_path)
Constructed(loaded) ==
    IF loaded.raised # None
    THEN UNCHANGED <<config, skills, exclusions>>
    ELSE /\ config' = loaded.value[1]
         /\ skills' = initialize_skills
         /\ exclusions' = load_exclusions(loaded.value[1])

\* the process ends as main did
Exits(e) ==
    /\ exit_code' = Some(e.exit_code)
    /\ stdout' = e.stdout
    /\ stderr' = e.stderr
    /\ route_calls' = e.route_calls
    /\ result' = e.result

\* sys.exit(main())
Main ==
    /\ pc = "start"
    /\ Constructed(load_config(args.config))
    /\ Exits(main(args, load_config(args.config)))
    /\ pc' = "exited"
    /\ UNCHANGED <<mode, input_text, executed, matcher_calls, simple, kwargs, normalized,
                   renormalized, args, parVars, syncVars>>

NextCli == Main

SpecCli == InitCli /\ [][NextCli]_vars

(***************************************************************************)
(* C23: the versions the components declare (checked under SpecCli).       *)
(***************************************************************************)
\* C23: every handler's VERSION equals "1.0.0", the router's VERSION, so
\* get_version_info reports one and the same version for the router and for
\* every skill_<mode> entry (shown by --version).
C23_OneVersion ==
    (pc = "exited" /\ args.version /\ exit_code = Some(0)) =>
        /\ RouterVERSION = <<"1.0.0">>
        /\ \A h \in Handlers : HandlerVERSION(h) = <<"1.0.0">>
        /\ \A m \in DOMAIN skills :
              get_version_info(config, skills)[<<"skill_", m>>]
                  = get_version_info(config, skills)[<<"router">>]
        /\ \A i \in 3..Len(stdout) : stdout[i].value[4] = "1.0.0"

(***************************************************************************)
(* C25: the order of the CLI's decisions (checked under SpecCli).          *)
(***************************************************************************)
\* nothing was routed and nothing printed to standard output
NothingRouted == route_calls = 0 /\ result = NoResult

\* the run printed exactly one thing: the JSON envelope with --json, else the
\* simple string of the envelope route returned
PrintedOnce ==
    /\ Len(stdout) = 1
    /\ args.json => stdout[1] = Json(result.value[1])
    /\ ~args.json => stdout[1] = Line(to_simple_output(result.value[1]))

\* C25: the CLI decides in a fixed order: a router initialisation failure
\* exits 1; otherwise --version, then --list-modes, each exit 0 without
\* --mode/--input and without routing; otherwise a missing --mode or --input
\* is a usage error before any routing; otherwise exactly one route call is
\* made and exactly one of the JSON envelope or the simple string is printed
\* with exit code 0, and an exception while processing yields exit code 1.
C25_CliDecisionOrder ==
    pc = "exited" =>
        IF args.config = Some("broken.yml")
        THEN exit_code = Some(1) /\ NothingRouted /\ stdout = <<>>
        ELSE IF args.version
        THEN /\ exit_code = Some(0) /\ NothingRouted
             /\ stdout[1] = Line(<<"FragMapper v", "1.0.0">>)
        ELSE IF args.list_modes
        THEN /\ exit_code = Some(0) /\ NothingRouted
             /\ stdout[1] = Line(<<"Supported modes:">>)
        ELSE IF args.mode = None \/ args.input = None
        THEN exit_code = Some(2) /\ NothingRouted /\ stdout = <<>> /\ stderr # <<>>
        ELSE /\ route_calls = 1
             /\ IF result.raised # None
                THEN exit_code = Some(1) /\ stdout = <<>>
                ELSE exit_code = Some(0) /\ PrintedOnce

(***************************************************************************)
(* tools/sync_project_files.py: the files of docs/, configs/ and the       *)
(* project root are copied into project_files/.  The file system maps a    *)
(* path to the bytes of the file, or to None where no file exists.         *)
(***************************************************************************)
DOCS_FILES ==
    <<"ParfumoMapper.md", "FragranticaMapper.md", "CrosswalkMapper.md", "FragMapper_Router.md">>
CONFIG_FILES == <<"fragmapper_rules.yml">>
ROOT_FILES == <<"README.md">>

\* the (source, dest) pairs of the three loops of main, in the order of the calls
pairs_of(dir, names) ==
    [i \in 1..Len(names) |->
        [source |-> <<dir, names[i]>>, dest |-> <<"project_files", names[i]>>]]
SyncPairs ==
    pairs_of("docs", DOCS_FILES) \o pairs_of("configs", CONFIG_FILES)
        \o pairs_of(".", ROOT_FILES)

\* sync_file without the comparison: it copies whenever the source exists
sync_file_always_copying(fs, source, dest) ==
    IF fs[source] = None THEN [files |-> fs, returned |-> FALSE]
    ELSE [files |-> [fs EXCEPT ![dest] = fs[source]], returned |-> TRUE]

\* sync_file(source, dest): the file system after the call and the value returned
sync_file(fs, source, dest) ==
    IF fs[source] = None THEN [files |-> fs, returned |-> FALSE]
    ELSE IF fs[dest] # None /\ fs[source] = fs[dest]
    THEN [files |-> fs, returned |-> FALSE]
    ELSE [files |-> [fs EXCEPT ![dest] = fs[source]], returned |-> TRUE]

\* main's state after one more call of sync_file
synced_one(run, r) ==
    [files |-> r.files, copied |-> Append(run.copied, r.returned),
     copied_count |-> IF r.returned THEN run.copied_count + 1 ELSE run.copied_count]

\* the loops of main from the i-th pair on
RECURSIVE sync_from(_, _)
sync_from(run, i) ==
    IF i > Len(SyncPairs) THEN run
    ELSE sync_from(
            synced_one(run, sync_file(run.files, SyncPairs[i].source, SyncPairs[i].dest)),
            i + 1)

\* main of the sync tool on the file system fs
sync_main(fs) == sync_from([files |-> fs, copied |-> <<>>, copied_count |-> 0], 1)

\* the summary line main prints, after its check mark
summary(count) ==
    IF count = 0 THEN <<"All files already in sync!">>
    ELSE <<"Synced ", count, " file(s)">>

\* a source and its copy before the tool runs: neither exists, only the copy,
\* only the source, both and equal, both and different
PairStates ==
    {[source |-> None, dest |-> None], [source |-> None, dest |-> Some("old")],
     [source |-> Some("new"), dest |-> None], [source |-> Some("new"), dest |-> Some("new")],
     [source |-> Some("new"), dest |-> Some("old")]}

\* the file system in which the i-th pair is in state st[i]
FileSystem(st) ==
    [p \in {SyncPairs[i].source : i \in 1..Len(SyncPairs)}
              \cup {SyncPairs[i].dest : i \in 1..Len(SyncPairs)} |->
        IF \E i \in 1..Len(SyncPairs) : SyncPairs[i].source = p
        THEN st[CHOOSE i \in 1..Len(SyncPairs) : SyncPairs[i].source = p].source
        ELSE st[CHOOSE i \in 1..Len(SyncPairs) : SyncPairs[i].dest = p].dest]

InitSync ==
    /\ IdlePar /\ IdleCli
    /\ Idle
    /\ pc = "ready"
    /\ input_text = <<>>
    /\ normalized = None
    /\ renormalized = None
    /\ \E st \in [1..Len(SyncPairs) -> PairStates] : files = FileSystem(st)
    /\ copied = <<>>
    /\ copied_count = <<>>

\* python tools/sync_project_files.py, a first and a second time
SyncMain ==
    /\ pc \in {"ready", "synced"}
    /\ files' = sync_main(files).files
    /\ copied' = sync_main(files).copied
    /\ copied_count' = Append(copied_count, sync_main(files).copied_count)
    /\ pc' = IF pc = "ready" THEN "synced" ELSE "resynced"
    /\ UNCHANGED <<config, skills, exclusions, mode, input_text, result, executed,
                   matcher_calls, simple, kwargs, normalized, renormalized, parVars, cliVars>>

NextSync == SyncMain

SpecSync == InitSync /\ [][NextSync]_vars

(***************************************************************************)
(* C26: sync_file (checked under SpecSync).                                *)
(***************************************************************************)
\* the call of sync_file on pair p in a run of the tool: it copies exactly
\* when the source exists and the copy is missing or differs, returns True
\* exactly then, and leaves the copy equal to an existing source
CopiesWhenNeeded(p, returned) ==
    /\ returned <=> /\ files[p.source] # None
                    /\ files[p.dest] = None \/ files[p.dest] # files[p.source]
    /\ files'[p.source] = files[p.source]
    /\ files'[p.dest] = IF returned THEN files[p.source] ELSE files[p.dest]
    /\ files[p.source] # None => files'[p.dest] = files'[p.source]

\* every call of a run follows the rule, and the run counts the copies
RunFollowsRule ==
    /\ Len(copied') = Len(SyncPairs)
    /\ \A i \in 1..Len(SyncPairs) : CopiesWhenNeeded(SyncPairs[i], copied'[i])
    /\ copied_count'[Len(copied_count')]
          = Cardinality({i \in 1..Len(SyncPairs) : copied'[i]})

\* a second run right after the first copies nothing and reports no file synced
SecondRunCopiesNothing ==
    pc = "resynced" =>
        /\ \A i \in 1..Len(copied) : ~copied[i]
        /\ copied_count[2] = 0
        /\ summary(copied_count[2]) = <<"All files already in sync!">>

\* C26: sync_file copies source to dest exactly when source exists and dest is
\* missing or differs byte for byte, and returns True exactly when it copied;
\* after it ran with an existing source dest is byte-identical to source, so
\* a second sync of the same files copies nothing and the tool reports 0 files.
C26_SyncCopiesWhenNeeded == [][RunFollowsRule]_vars /\ []SecondRunCopiesNothing

\* the first run copied the three files whose copies were missing or stale,
\* the second none
C26_Witness ==
    /\ pc = "resynced"
    /\ copied_count = <<3, 0>>
    /\ files[<<".", "README.md">>] = None
    /\ files[<<"project_files", "README.md">>] = Some("old")
    /\ files[<<"project_files", "fragmapper_rules.yml">>] = Some("new")

====
